---- MODULE Spec2Model ----
(***************************************************************************)
(* Model of the forum-replier ingestion pipeline:                          *)
(*   - the per-channel indexing run (app/ingestion/tasks.py),              *)
(*   - the text chunker (app/ingestion/chunker.py),                        *)
(*   - the documentation crawler (app/ingestion/crawler.py).               *)
(* Each part has its own specification over the shared variables:          *)
(*   Spec (indexing run), ChunkSpec (chunker), CrawlSpec (crawler).        *)
(***************************************************************************)
EXTENDS Integers, Sequences, FiniteSets, TLC

VARIABLES
    \* ---- indexing run (tasks.py) ----
    srcType,      \* KnowledgeSource.source_type of each source of the channel
    dbStatus,     \* committed KnowledgeSource.status
    dbError,      \* committed KnowledgeSource.error_message (its length, or NoError)
    sessStatus,   \* status attribute as held by the run's session (uncommitted)
    pc,           \* position of _index_channel_sources
    sources,      \* the remaining part of the list the run iterates over
    chunks,       \* number of chunks collected for the current source
    exc,          \* length of str(e) of the exception being handled, or NoExc
    index,        \* chunks stored in the channel's collection, per source
    notifyCalls,  \* calls of _notify_slack made by the run
    delivered,    \* messages that chat_postMessage accepted
    startPending, \* history: sources that were Pending when the run queried them
    log,          \* history: per source, the steps that raised and the fetch event
    \* ---- chunker (chunker.py) ----
    chunk_size,   \* TextChunker.chunk_size
    chunk_overlap,\* TextChunker.chunk_overlap
    text,         \* the text given to chunk_text
    emitted,      \* the chunks chunk_text yielded, in order
    cpc,          \* "off", "input" (before the call) or "done" (generator exhausted)
    seeded,       \* history: each start of a new buffer after a flush (lines 50-53)
    \* ---- crawler (crawler.py) ----
    max_pages,    \* DocsCrawler.max_pages
    max_depth,    \* DocsCrawler.max_depth
    site,         \* the web site: for each page URL, the anchors of its page
    visited,      \* DocsCrawler.visited
    stack,        \* the active _crawl_recursive calls: links still to follow, depth
    crpc,         \* "off", "start", "run" or "done"
    fetched,      \* history: the URLs given to client.get, in order
    yielded,      \* the url of every CrawledPage yielded, in order
    allHtml,      \* history: every fetch so far returned an HTML page with content
    responses,    \* history: for each fetch, the depth of the call and what came back
    \* ---- GitHub fetcher (github.py) ----
    max_files,    \* GitHubFetcher.max_files
    fetched_count,\* GitHubFetcher.fetched_count
    repo,         \* the repository: what get_contents gives for each existing path
    ghpc,         \* "off", "start", "priority", "operator", "docs", "done" or "error"
    ghi,          \* position in the list the current phase iterates over
    ghstack,      \* the active _fetch_directory calls: items still to do, depth
    ghYielded,    \* the GitHubFile objects yielded, in order (path, size, loop of fetch)
    ghSkipped,    \* history: the reasons for which _process_file skipped a file
    \* ---- query pipeline (pipeline.py, vector_store.py, events.py) ----
    collection,   \* the chunks of the channel's index, nearest to the question first
    qpc,          \* "off", "start", "embed", "query", "generate", "returned", "raised",
                  \* "logged", "except", "replied"
    calls,        \* history: the calls answer_question made, in order
    context,      \* the context given to generate_answer
    qsources,     \* the local list sources of answer_question
    qresult,      \* the dict answer_question returned
    raisedBy,     \* the call whose exception left answer_question, or "none"
    said,         \* the calls of say(...) the handler made, in order
    convLogs,     \* the ConversationLog rows committed
    \* ---- answer generation (llm.py) ----
    llmText,      \* response.content[0].text
    genOut,       \* the (answer, confidence) generate_answer returned
    gpc,          \* "off", "input", "returned" or "raised"
    \* ---- configuration and its runs (modals.py, tasks.py) ----
    table,        \* the KnowledgeSource rows of the Slack channel, by id
    nextId,       \* the id the next inserted row gets
    submits,      \* configuration forms submitted so far
    channels,     \* the number of MonitoredChannel rows that carry the Slack
                  \* channel's id; their ids are 1..channels
    handlers,     \* the calls of handle_config_submit that are past their
                  \* channel query and have not returned: position, form,
                  \* channel row
    runs,         \* the threads started by trigger_indexing: position, channel
                  \* row, sources queried, sources left, whether the list
                  \* chunks holds chunks
    selected,     \* history: the ids some run has selected for indexing
    marks,        \* history: <<id, run>> for every commit of Indexing
    store,        \* the channel's collection: the source and run of each add
    \* ---- chat history (slack_history.py, tasks.py _index_slack_history) ----
    slHistory,    \* the messages conversations_history gives, over all its pages
    slpc,         \* "off", "start", "page", "messages", "flush" or "done"
    slPage,       \* pages of the history fetched so far
    slPos,        \* position of the next message of the history
    slYielded,    \* the SlackMessage objects fetch yielded, in order
    slApiError,   \* history: a call of the chat platform raised SlackApiError
    current_conversation, \* _index_slack_history: the messages of the group being built
    last_thread,  \* _index_slack_history: thread_ts of the message before
    slChunks      \* _index_slack_history: the list chunks

ixvars == <<srcType, dbStatus, dbError, sessStatus, pc, sources, chunks, exc,
            index, notifyCalls, delivered, startPending, log>>

chvars == <<chunk_size, chunk_overlap, text, emitted, cpc, seeded>>

crvars == <<max_pages, max_depth, site, visited, stack, crpc, fetched, yielded,
            allHtml, responses>>

ghvars == <<max_files, fetched_count, repo, ghpc, ghi, ghstack, ghYielded,
            ghSkipped>>

qvars == <<collection, qpc, calls, context, qsources, qresult, raisedBy, said,
           convLogs>>

gvars == <<llmText, genOut, gpc>>

cfvars == <<table, nextId, submits, channels, handlers, runs, selected, marks,
            store>>

slvars == <<slHistory, slpc, slPage, slPos, slYielded, slApiError,
            current_conversation, last_thread, slChunks>>

vars == <<ixvars, chvars, crvars, ghvars, qvars, gvars, cfvars, slvars>>

-----------------------------------------------------------------------------
(* Bounds *)

NumSources == 2          \* sources configured for the channel
MaxUnits == 1            \* pages / files / messages a fetcher returns
MaxTextLen == 7          \* length of the text given to chunk_text
SmallChunk == 3          \* a chunk_size shorter than most texts
LargeChunk == 6          \* a chunk_size longer than most texts
MaxOverlap == 2          \* chunk_overlap
MaxPagesBound == 4       \* largest max_pages a crawler is constructed with
MaxDepthBound == 2       \* largest max_depth a crawler is constructed with
MaxFilesBound == 5       \* largest max_files a GitHubFetcher is constructed with
MaxNest == 6             \* deepest nesting of directories in a repository
MaxIndexed == 6          \* chunks in a channel's index
MaxResponseLen == 6      \* pieces of a generation response
MaxMessages == 3         \* messages in the history window of a channel
PageLimit == 2           \* messages on one page of conversations_history
MaxSubmits == 2          \* configuration forms submitted for the channel

ChunkSizes == {SmallChunk, LargeChunk}

(* Program constants *)

ErrorMessageLimit == 500

NoError == -1
NoExc == -1

SourceType == {"documentation", "github_operator", "github_operand",
               "github_issues", "slack_history"}

SourceStatus == {"pending", "indexing", "indexed", "failed"}

Min(a, b) == IF a <= b THEN a ELSE b

\* lengths of str(e) that an exception may carry: short, and over the limit
ExcLens == {1, ErrorMessageLimit + 1}

\* the source types the modelled channel is configured with (one per fetcher)
ConfiguredTypes == {"documentation", "github_operator", "slack_history"}

\* What can happen while a fetcher runs.  units = the pages / files / messages
\* obtained before the event.
\*   ok         : every request succeeds
\*   http_error : a request is answered with an error status
\*                (httpx.HTTPStatusError, GithubException, SlackApiError)
\*   net_error  : a request of the fetch itself fails on the network
\*                (connection error, timeout): the page request of the crawler,
\*                get_repo / get_contents / get_issues / get_comments of GitHub,
\*                a call of the Slack client
\*   load_error : the load of one listed file's content fails inside
\*                _process_file (the lazy request behind .content fails on the
\*                network, or the content cannot be decoded)
\*   bad_url    : the source's url cannot be parsed by the fetcher's constructor
FetchKinds == {"ok", "http_error", "net_error", "load_error", "bad_url"}
FetchEvents == [kind : FetchKinds, units : 0..MaxUnits]

\* only GitHubFetcher loads the content of a unit apart from listing it
FetchEventsOf(type) ==
    {ev \in FetchEvents :
        ev.kind = "load_error" => type \in {"github_operator", "github_operand"}}

Range(f) == {f[i] : i \in DOMAIN f}

-----------------------------------------------------------------------------
(* The fetchers as seen by _index_channel_sources: whether the call raises   *)
(* into the run's try block, and how many chunks it returns otherwise.       *)
(* Every fetched unit with content gives one chunk.                          *)

Raised == [raised |-> TRUE, chunks |-> 0]
Returned(n) == [raised |-> FALSE, chunks |-> n]

\* DocsCrawler: __init__ parses the url outside any handler; every error of a
\* page fetch is caught per URL inside _crawl_recursive and the crawl goes on.
IndexDocumentation(ev) ==
    IF ev.kind = "bad_url" THEN Raised ELSE Returned(ev.units)

\* GitHubFetcher: __init__ raises ValueError on a url without owner/name;
\* fetch and _fetch_directory catch GithubException only, so a network error
\* of get_repo or get_contents reaches the run; _process_file catches every
\* exception of the load of a file's content, skips the file and goes on.
IndexGithub(ev) ==
    CASE ev.kind = "bad_url"    -> Raised
      [] ev.kind = "net_error"  -> Raised
      [] ev.kind = "load_error" -> Returned(ev.units)
      [] OTHER                  -> Returned(ev.units)

\* GitHubIssuesFetcher: __init__ raises ValueError on a url without
\* owner/name; fetch and _process_issue catch GithubException only.
IndexGithubIssues(ev) ==
    CASE ev.kind = "bad_url"    -> Raised
      [] ev.kind = "net_error"  -> Raised
      [] OTHER                  -> Returned(ev.units)

\* SlackHistoryFetcher: the days parameter is parsed with int() outside any
\* handler; fetch catches SlackApiError only.
IndexSlackHistory(ev) ==
    CASE ev.kind = "bad_url"    -> Raised
      [] ev.kind = "net_error"  -> Raised
      [] OTHER                  -> Returned(ev.units)

\* the dispatch on source_type
FetchChunks(type, ev) ==
    CASE type = "documentation"                          -> IndexDocumentation(ev)
      [] type \in {"github_operator", "github_operand"}  -> IndexGithub(ev)
      [] type = "github_issues"                          -> IndexGithubIssues(ev)
      [] type = "slack_history"                          -> IndexSlackHistory(ev)

-----------------------------------------------------------------------------
(* The chunker, TextChunker.  Strings are sequences of characters.           *)

Char == {"a", ".", " ", "\n"}
Whitespace == {" ", "\n"}

\* all strings of at most n characters
RECURSIVE StringsUpTo(_)
StringsUpTo(n) ==
    IF n = 0 THEN {<<>>}
    ELSE LET shorter == StringsUpTo(n - 1)
         IN shorter \cup {Append(w, c) : w \in {v \in shorter : Len(v) = n - 1}, c \in Char}

\* str.lstrip(), str.rstrip(), str.strip()
RECURSIVE LStrip(_)
LStrip(s) ==
    IF s # <<>> /\ Head(s) \in Whitespace THEN LStrip(Tail(s)) ELSE s

RECURSIVE RStrip(_)
RStrip(s) ==
    IF s # <<>> /\ s[Len(s)] \in Whitespace
    THEN RStrip(SubSeq(s, 1, Len(s) - 1)) ELSE s

Strip(s) == RStrip(LStrip(s))

\* s[k+1:], the string without its first k characters
Drop(s, k) == SubSeq(s, k + 1, Len(s))

\* str.split(sep) for a separator of one or two characters: the pieces between
\* the occurrences of sep, scanned from the left; cur is the piece being read
StartsWith(s, pre) ==
    Len(s) >= Len(pre) /\ SubSeq(s, 1, Len(pre)) = pre

RECURSIVE SplitAcc(_, _, _)
SplitAcc(s, sep, cur) ==
    IF s = <<>> THEN <<cur>>
    ELSE IF StartsWith(s, sep)
         THEN <<cur>> \o SplitAcc(Drop(s, Len(sep)), sep, <<>>)
         ELSE SplitAcc(Tail(s), sep, Append(cur, Head(s)))

Split(s, sep) == SplitAcc(s, sep, <<>>)

\* str.replace(old, new)
RECURSIVE Replace(_, _, _)
Replace(s, old, new) ==
    IF s = <<>> THEN <<>>
    ELSE IF StartsWith(s, old)
         THEN new \o Replace(Drop(s, Len(old)), old, new)
         ELSE <<Head(s)>> \o Replace(Tail(s), old, new)

Blank2 == <<"\n", "\n">>

\* A chunk.  content is Chunk.content; overlap is a history field, the overlap
\* text the buffer of this chunk was seeded with (empty when there was none).
\* Chunk.metadata is a copy of the caller's mapping and is left out.
Chunk(content, overlap) == [content |-> content, overlap |-> overlap]

\* the flush "if current_chunk.strip(): yield Chunk(current_chunk.strip())"
Flush(current, overlap) ==
    IF Strip(current) # <<>> THEN <<Chunk(Strip(current), overlap)>> ELSE <<>>

\* "len(current_chunk) + len(piece) > self.chunk_size" (lines 41 and 74)
Exceeds(current, piece, size) == Len(current) + Len(piece) > size

\* the buffer forgets the sentences it holds
AppendSentence_Overwrites(current, sentence) == sentence

\* current_chunk + " " + sentence if current_chunk else sentence (line 79)
AppendSentence(current, sentence) ==
    IF current # <<>> THEN current \o <<" ">> \o sentence ELSE sentence

\* the paragraphs are joined by one newline only
AppendParagraph_OneNewline(current, paragraph) ==
    IF current # <<>> THEN current \o <<"\n">> \o paragraph ELSE paragraph

\* current_chunk + "\n\n" + paragraph if current_chunk else paragraph (line 56)
AppendParagraph(current, paragraph) ==
    IF current # <<>> THEN current \o Blank2 \o paragraph ELSE paragraph

\* overlap + "\n\n" + paragraph if overlap else paragraph (line 53)
SeedWithOverlap(overlap, paragraph) ==
    IF overlap # <<>> THEN overlap \o Blank2 \o paragraph ELSE paragraph

\* _split_large_text, the loop over the sentences (lines 69-82)
RECURSIVE SplitLoop(_, _, _)
SplitLoop(sentences, current, size) ==
    IF sentences = <<>> THEN Flush(current, <<>>)
    ELSE LET sentence == Strip(Head(sentences))
             rest == Tail(sentences)
         IN IF sentence = <<>> THEN SplitLoop(rest, current, size)
            ELSE IF Exceeds(current, sentence, size)
                 THEN Flush(current, <<>>) \o SplitLoop(rest, sentence, size)
                 ELSE SplitLoop(rest, AppendSentence(current, sentence), size)

\* _split_large_text (lines 62-82)
SplitLargeText(t, size) ==
    SplitLoop(Split(Replace(t, <<".", " ">>, <<".", "\n">>), <<"\n">>), <<>>, size)

\* s[-n:] of Python for n >= 0: -0 is 0, so s[-0:] is all of s; a start before
\* the string is clipped to its beginning
LastChars(s, n) ==
    IF n = 0 \/ n >= Len(s) THEN s ELSE Drop(s, Len(s) - n)

\* current_chunk[-chunk_overlap:] if len(current_chunk) > chunk_overlap else ""
Overlap(current, ovl) ==
    IF Len(current) > ovl THEN LastChars(current, ovl) ELSE <<>>

\* chunk_text, the loop over the paragraphs (lines 35-60); seed is the history
\* of the overlap the buffer was started with
RECURSIVE ChunkLoop(_, _, _, _, _)
ChunkLoop(paragraphs, current, seed, size, ovl) ==
    IF paragraphs = <<>> THEN Flush(current, seed)
    ELSE LET paragraph == Strip(Head(paragraphs))
             rest == Tail(paragraphs)
         IN IF paragraph = <<>> THEN ChunkLoop(rest, current, seed, size, ovl)
            ELSE IF Exceeds(current, paragraph, size)
                 THEN Flush(current, seed) \o
                      (IF Len(paragraph) > size
                       THEN SplitLargeText(paragraph, size) \o
                            ChunkLoop(rest, <<>>, <<>>, size, ovl)
                       ELSE LET overlap == Overlap(current, ovl)
                            IN ChunkLoop(rest, SeedWithOverlap(overlap, paragraph),
                                         overlap, size, ovl))
                 ELSE ChunkLoop(rest, AppendParagraph(current, paragraph),
                                seed, size, ovl)

\* chunk_text (lines 21-60)
ChunkText(t, size, ovl) ==
    IF Strip(t) = <<>> THEN <<>>
    ELSE ChunkLoop(Split(Strip(t), Blank2), <<>>, <<>>, size, ovl)

\* chunk_text, lines 41-53, as a history: every time a buffer with content was
\* flushed for a paragraph that fits a chunk, the flushed buffer, the
\* paragraph and the buffer the loop goes on with
RECURSIVE SeedLoop(_, _, _, _)
SeedLoop(paragraphs, current, size, ovl) ==
    IF paragraphs = <<>> THEN <<>>
    ELSE LET paragraph == Strip(Head(paragraphs))
             rest == Tail(paragraphs)
         IN IF paragraph = <<>> THEN SeedLoop(rest, current, size, ovl)
            ELSE IF Exceeds(current, paragraph, size)
                 THEN IF Len(paragraph) > size
                      THEN SeedLoop(rest, <<>>, size, ovl)
                      ELSE LET buffer == SeedWithOverlap(Overlap(current, ovl), paragraph)
                           IN (IF Strip(current) # <<>>
                               THEN <<[flushed |-> current, paragraph |-> paragraph,
                                       buffer |-> buffer]>>
                               ELSE <<>>)
                              \o SeedLoop(rest, buffer, size, ovl)
                 ELSE SeedLoop(rest, AppendParagraph(current, paragraph), size, ovl)

SeedEvents(t, size, ovl) ==
    IF Strip(t) = <<>> THEN <<>>
    ELSE SeedLoop(Split(Strip(t), Blank2), <<>>, size, ovl)

\* the chunker is not part of the behaviour
ChunkOff ==
    /\ chunk_size = 0
    /\ chunk_overlap = 0
    /\ text = <<>>
    /\ emitted = <<>>
    /\ cpc = "off"
    /\ seeded = <<>>

-----------------------------------------------------------------------------
(* The crawler, DocsCrawler.  A URL is the sequence of its pieces, for       *)
(* example <<"https://", "ex.com", "/", "docs", "/", "a", "#", "top">>.       *)

Docs == <<"https://", "ex.com", "/", "docs">>

PageA == Docs \o <<"/", "a">>
PageB == Docs \o <<"/", "b">>
PageC == Docs \o <<"/", "c">>

\* the pages of the site
Pages == {Docs, PageA, PageB, PageC}

\* other spellings of the pages, and URLs outside the documentation
PageASlash == PageA \o <<"/">>
PageAFrag == PageA \o <<"#", "top">>
DocsFrag == Docs \o <<"/", "#", "top">>
Blog == <<"https://", "ex.com", "/", "blog">>
Pdf == Docs \o <<"/", "file", ".pdf">>
PdfUpper == Docs \o <<"/", "file", ".PDF">>
Other == <<"https://", "other.com", "/", "docs">>

\* https://ex.com/docs-old/x: a sibling of the documentation whose path has
\* the characters of the base path as a prefix
DocsOldX == <<"https://", "ex.com", "/", "docs", "-old", "/", "x">>

\* the base_url the crawler is constructed with
BaseInput == Docs \o <<"/">>

\* an anchor of a page: its href (after urljoin) and the element it lies in
Anchor(href, within) == [href |-> href, within |-> within]

\* anchors with the given hrefs, all in the same element
Within(within, hrefs) == [i \in DOMAIN hrefs |-> Anchor(hrefs[i], within)]

\* a page with anchors in its navigation, header, footer and sidebar, and one
\* in its text
Framed == <<Anchor(PageA, "nav"), Anchor(PageB, "header"), Anchor(PageC, "main"),
            Anchor(PageB, "footer"), Anchor(PageA, "aside")>>

\* the anchor lists a page of the site may carry
LinkLists == {<<>>,
              Within("main", <<PageA, PageB>>),
              Within("main", <<PageB>>),
              Within("main", <<PageC, DocsFrag>>),
              Within("main", <<PageASlash, PageAFrag>>),
              Within("main", <<Blog, Other, Pdf, PdfUpper, DocsOldX, PageC>>),
              Framed}

\* what client.get(url) may give
Responses == {"html", "html_blank", "not_html", "error"}

\* url.split("#")[0]
RECURSIVE BeforeHash(_)
BeforeHash(u) ==
    IF u = <<>> \/ Head(u) = "#" THEN <<>>
    ELSE <<Head(u)>> \o BeforeHash(Tail(u))

\* str.rstrip("/")
RECURSIVE RStripSlash(_)
RStripSlash(u) ==
    IF u # <<>> /\ u[Len(u)] = "/" THEN RStripSlash(SubSeq(u, 1, Len(u) - 1)) ELSE u

\* line 59 and line 173: url.split("#")[0].rstrip("/")
Normalize(u) == RStripSlash(BeforeHash(u))

\* urlparse(url).netloc and urlparse(url).path
Netloc(u) == IF Len(u) >= 2 /\ u[1] = "https://" THEN u[2] ELSE ""
UrlPath(u) == IF Len(u) >= 2 /\ u[1] = "https://" THEN BeforeHash(Drop(u, 2))
              ELSE BeforeHash(u)

\* x or "/"
OrSlash(path) == IF path = <<>> THEN <<"/">> ELSE path

\* DocsCrawler.__init__ (lines 25-32)
BaseUrl == RStripSlash(BaseInput)
BaseDomain == Netloc(BaseUrl)
BasePathPrefix == OrSlash(RStripSlash(UrlPath(BaseUrl)))

SkipExtensions == {".pdf", ".zip", ".tar", ".gz", ".png", ".jpg", ".gif", ".svg",
                   ".css", ".js"}

\* str.lower() on the last piece of a path
Lower(piece) == IF piece = ".PDF" THEN ".pdf" ELSE piece

\* the path prefix is not looked at
IsValidUrl_AnyPath(u) ==
    LET url_path == OrSlash(RStripSlash(UrlPath(u)))
    IN /\ Netloc(u) = BaseDomain
       /\ Lower(url_path[Len(url_path)]) \notin SkipExtensions

\* _is_valid_url (lines 102-124)
IsValidUrl(u) ==
    LET url_path == OrSlash(RStripSlash(UrlPath(u)))
    IN /\ Netloc(u) = BaseDomain
       /\ StartsWith(url_path, BasePathPrefix)
       /\ Lower(url_path[Len(url_path)]) \notin SkipExtensions

\* _extract_links (lines 158-178): the normalized hrefs that are valid and not
\* yet visited, in document order
RECURSIVE ExtractLinks(_, _)
ExtractLinks(hrefs, seen) ==
    IF hrefs = <<>> THEN <<>>
    ELSE LET absolute_url == Normalize(Head(hrefs))
         IN (IF IsValidUrl(absolute_url) /\ absolute_url \notin seen
             THEN <<absolute_url>> ELSE <<>>)
            \o ExtractLinks(Tail(hrefs), seen)

\* the visited test never finds anything
AlreadyVisited_Never(u, seen) == FALSE

\* "url in self.visited" (line 61)
AlreadyVisited(u, seen) == u \in seen

\* the page budget is not looked at
BudgetSpent_Never(seen, budget) == FALSE

\* "len(self.visited) >= self.max_pages" (line 55)
BudgetSpent(seen, budget) == Cardinality(seen) >= budget

\* the early returns of _crawl_recursive (lines 52-65)
Skips(url, depth) ==
    \/ depth > max_depth
    \/ BudgetSpent(visited, max_pages)
    \/ AlreadyVisited(Normalize(url), visited)
    \/ ~IsValidUrl(Normalize(url))

\* the responses that are parsed: the call goes on to the links of the page
Parsed == {"html", "html_blank"}

\* line 129: the elements _extract_content removes from the soup
Decomposed == {"script", "style", "nav", "header", "footer", "aside"}

Kept(anchor) == anchor.within \notin Decomposed

\* _extract_content, lines 129-130: tag.decompose() for every element of these
\* kinds; the anchors inside them leave the soup with them
Decompose(anchors) == SelectSeq(anchors, Kept)

\* the hrefs of all anchors of the page at u, as the server sends it
Hrefs(u) == IF u \in DOMAIN site THEN [i \in DOMAIN site[u] |-> site[u][i].href]
            ELSE <<>>

\* line 95: the hrefs of the anchors _extract_links finds in the soup, which
\* _extract_content (line 88) has gone over before; a URL the site has no page
\* for carries none
LinksOf(u) ==
    IF u \in DOMAIN site
    THEN LET soup == Decompose(site[u])
         IN [i \in DOMAIN soup |-> soup[i].href]
    ELSE <<>>

\* a fetch that gives no HTML ends every active call
Resume_Abort(res, page, rest) == IF res \in Parsed THEN <<page>> \o rest ELSE <<>>

\* lines 69-100: after an HTML response the call iterates over the links of its
\* page; after an exception (caught at line 99) or a response that is not
\* HTML (line 75) it returns to its caller, whose loop goes on
Resume(res, page, rest) == IF res \in Parsed THEN <<page>> \o rest ELSE rest

\* One call _crawl_recursive(url, depth) up to the point where it either has
\* returned or is about to iterate over the links of its page; rest is the
\* stack of the callers.
Call(url, depth, rest) ==
    LET u == Normalize(url)
    IN IF Skips(url, depth)
       THEN /\ stack' = rest
            /\ UNCHANGED <<visited, fetched, yielded, allHtml, responses>>
       ELSE /\ visited' = visited \cup {u}
            /\ fetched' = Append(fetched, u)
            /\ \E res \in Responses :
                 /\ responses' = Append(responses, [depth |-> depth, res |-> res])
                 /\ yielded' = IF res = "html" THEN Append(yielded, u) ELSE yielded
                 /\ allHtml' = (allHtml /\ res = "html")
                 /\ stack' = Resume(res,
                                    [links |-> ExtractLinks(LinksOf(u), visited \cup {u}),
                                     depth |-> depth],
                                    rest)

CrawlOff ==
    /\ max_pages = 0
    /\ max_depth = 0
    /\ site = <<>>
    /\ visited = {}
    /\ stack = <<>>
    /\ crpc = "off"
    /\ fetched = <<>>
    /\ yielded = <<>>
    /\ allHtml = TRUE
    /\ responses = <<>>

-----------------------------------------------------------------------------
(* The GitHub repository fetcher (app/ingestion/github.py).  A path is the   *)
(* sequence of its pieces, with "/" and "." as pieces of their own.          *)

\* GitHubFetcher.PRIORITY_FILES (lines 29-33)
PRIORITY_FILES == << <<"README", ".", "md">>, <<"readme", ".", "md">>,
                     <<"README", ".", "rst">>, <<"CONTRIBUTING", ".", "md">>,
                     <<"CHANGELOG", ".", "md">>, <<"ARCHITECTURE", ".", "md">>,
                     <<"docs", "/", "README", ".", "md">>,
                     <<"doc", "/", "README", ".", "md">> >>

\* GitHubFetcher.DOC_DIRS (line 36)
DOC_DIRS == << <<"docs">>, <<"doc">>, <<"documentation">>, <<"examples">>,
               <<"samples">> >>

\* GitHubFetcher.OPERATOR_DIRS (lines 39-49)
OPERATOR_DIRS == << <<"api">>, <<"apis">>, <<"config", "/", "crd">>,
                    <<"config", "/", "rbac">>, <<"config", "/", "samples">>,
                    <<"bundle", "/", "manifests">>, <<"charts">>, <<"deploy">>,
                    <<"hack">> >>

\* line 128: files above this size are skipped
SizeCeiling == 500000

\* line 105: directories nested deeper than this are not listed
DepthLimit == 4

\* lines 132-136
RelevantExtensions == {<<".", "md">>, <<".", "rst">>, <<".", "txt">>,
                       <<".", "adoc">>, <<".", "go">>, <<".", "py">>,
                       <<".", "yaml">>, <<".", "yml">>, <<".", "json">>,
                       <<".", "sh">>, <<".", "bash">>}

\* path.split(".")[-1]
RECURSIVE AfterLastDot(_)
AfterLastDot(path) ==
    IF path = <<>> \/ path[Len(path)] = "." THEN <<>>
    ELSE AfterLastDot(SubSeq(path, 1, Len(path) - 1)) \o <<path[Len(path)]>>

\* line 138: "." + path.split(".")[-1] if "." in path else ""
Ext(path) == IF "." \in Range(path) THEN <<".">> \o AfterLastDot(path) ELSE <<>>

\* ext.lower()
LowerExt(ext) == [i \in DOMAIN ext |-> IF ext[i] = "MD" THEN "md" ELSE ext[i]]

\* the paths of the repositories considered
ReadmePath == <<"README", ".", "md">>
DocsReadmePath == <<"docs", "/", "README", ".", "md">>
GuidePath == <<"docs", "/", "guide", ".", "MD">>
ApiV1Path == <<"api", "/", "v1">>
TypesPath == <<"api", "/", "types", ".", "go">>
LogoPath == <<"api", "/", "logo", ".", "png">>
LinkPath == <<"api", "/", "link">>
DocGoPath == <<"api", "/", "v1", "/", "doc", ".", "go">>
MakefilePath == <<"api", "/", "v1", "/", "Makefile">>

\* hack, hack/d, hack/d/d, ...: a chain of n nested directories
RECURSIVE HackDir(_)
HackDir(n) == IF n <= 1 THEN <<"hack">> ELSE HackDir(n - 1) \o <<"/", "d">>

\* a file of the repository as get_contents gives it: decodes says whether
\* base64.b64decode(content).decode("utf-8") succeeds

\* the shapes a file may have: small text, text of exactly the ceiling, text
\* above the ceiling, small and not UTF-8
FileShapes == {"plain", "ceiling", "big", "binary"}

Shape(name) ==
    [size |-> CASE name = "ceiling" -> SizeCeiling
                [] name = "big" -> SizeCeiling + 1
                [] OTHER -> 1,
     decodes |-> name # "binary"]

\* a file of the repository as get_contents gives it: decodes says whether
\* base64.b64decode(content).decode("utf-8") succeeds
File(path, shape) ==
    [type |-> "file", path |-> path, size |-> Shape(shape).size,
     decodes |-> Shape(shape).decodes]

Dir(path, items) == [type |-> "dir", path |-> path, items |-> items]

\* an entry that is neither a file nor a directory (a symbolic link, a
\* submodule): it has no content, so decoding it fails
Link(path) == [type |-> "symlink", path |-> path, size |-> 0, decodes |-> FALSE]

\* the chain of directories under hack, with run.sh in the innermost one
HackTree(nest) ==
    [p \in {HackDir(n) : n \in 1..nest} \cup {HackDir(nest) \o <<"/", "run", ".", "sh">>} |->
        IF p = HackDir(nest) \o <<"/", "run", ".", "sh">> THEN File(p, "plain")
        ELSE IF p = HackDir(nest) THEN Dir(p, <<p \o <<"/", "run", ".", "sh">>>>)
        ELSE Dir(p, <<p \o <<"/", "d">>>>)]

\* a repository: what repo.get_contents(path) gives for each path that exists.
\* readme is "absent", "dir", "symlink" or a file shape.
Repo(readme, docsReadme, guide, types, nest) ==
    LET base == (ReadmePath :> (CASE readme = "dir" -> Dir(ReadmePath, <<>>)
                                  [] readme = "symlink" -> Link(ReadmePath)
                                  [] OTHER -> File(ReadmePath, readme)))
                @@ (DocsReadmePath :> File(DocsReadmePath, docsReadme))
                @@ (GuidePath :> File(GuidePath, guide))
                @@ (<<"docs">> :> Dir(<<"docs">>, <<DocsReadmePath, GuidePath>>))
                @@ (<<"api">> :> Dir(<<"api">>, <<ApiV1Path, LogoPath, LinkPath, TypesPath>>))
                @@ (ApiV1Path :> Dir(ApiV1Path, <<DocGoPath, MakefilePath>>))
                @@ (TypesPath :> File(TypesPath, types))
                @@ (LogoPath :> File(LogoPath, "plain"))
                @@ (LinkPath :> Link(LinkPath))
                @@ (DocGoPath :> File(DocGoPath, "plain"))
                @@ (MakefilePath :> File(MakefilePath, "plain"))
                @@ (IF nest = 0 THEN <<>> ELSE HackTree(nest))
    IN [p \in (DOMAIN base) \ (IF readme = "absent" THEN {ReadmePath} ELSE {}) |-> base[p]]

\* the budget test is off by one
BudgetReached_Above(count, budget) == count > budget

\* "self.fetched_count >= self.max_files" (lines 77, 88, 94, 105, 114)
BudgetReached(count, budget) == count >= budget

\* _process_file (lines 125-157): why the file is skipped, or "yield"
ProcessOutcome(f) ==
    IF f.size > SizeCeiling THEN "size"
    ELSE IF LowerExt(Ext(f.path)) \notin RelevantExtensions
            /\ f.path \notin Range(PRIORITY_FILES) THEN "extension"
    ELSE IF ~f.decodes THEN "decode"
    ELSE "yield"

\* _process_file as a step of the fetch
ProcessFile(f) ==
    IF ProcessOutcome(f) = "yield"
    THEN /\ fetched_count' = fetched_count + 1
         /\ ghYielded' = Append(ghYielded,
                                [path |-> f.path, size |-> f.size, phase |-> ghpc])
         /\ UNCHANGED ghSkipped
    ELSE /\ ghSkipped' = ghSkipped \cup {ProcessOutcome(f)}
         /\ UNCHANGED <<fetched_count, ghYielded>>

\* lines 109-111: the listing of a path; a single file is put in a list
Contents(path) ==
    IF repo[path].type = "dir" THEN repo[path].items ELSE <<path>>

\* _fetch_directory (lines 103-111) up to the loop over the listing: the stack
\* of listings after the call, rest being the stack of the callers
FetchDirectory(path, depth, rest) ==
    IF depth > DepthLimit \/ BudgetReached(fetched_count, max_files) THEN rest
    ELSE IF path \notin DOMAIN repo THEN rest
    ELSE <<[items |-> Contents(path), depth |-> depth]>> \o rest

\* the documentation directories are walked before the operator directories
After_DocsFirst(phase) ==
    CASE phase = "priority" -> "docs"
      [] phase = "docs" -> "operator"
      [] OTHER -> "done"

\* fetch (lines 75-98): the loop that follows each of the three loops
After(phase) ==
    CASE phase = "priority" -> "operator"
      [] phase = "operator" -> "docs"
      [] OTHER -> "done"

GhOff ==
    /\ max_files = 0
    /\ fetched_count = 0
    /\ repo = <<>>
    /\ ghpc = "off"
    /\ ghi = 0
    /\ ghstack = <<>>
    /\ ghYielded = <<>>
    /\ ghSkipped = {}

-----------------------------------------------------------------------------
(* The chat history fetcher (app/ingestion/slack_history.py) and the         *)
(* grouping of its messages (app/ingestion/tasks.py, _index_slack_history).  *)
(* A timestamp is a number; a text is known by its length after strip().     *)

\* message.get("thread_ts") of a message that has none
None == 0

\* line 60: texts shorter than this are skipped
MinTextLen == 10

\* chunker.py line 17: the chunk_size of TextChunker(), the chunker of a run
\* (tasks.py line 41)
DefaultChunkSize == 1000

\* the length of a long text: two of them do not fit one chunk
LongTextLen == (DefaultChunkSize \div 2) + 1

\* the messages a channel history may hold: an ordinary message, one with a
\* short text, one with a long text, a system message, and thread parents: as
\* conversations_history gives them (thread_ts equal to ts), without
\* thread_ts, and with a short text.  Every text is one line and one sentence
\* (it holds no newline and no ". ").
MessageKinds == {"plain", "short", "long", "system", "parent", "parent_bare",
                 "parent_short"}

ParentKinds == {"parent", "parent_bare", "parent_short"}

\* the replies conversations_replies gives after the parent: an ordinary reply,
\* a short one, a system message and another ordinary reply
ReplyKinds == <<"plain", "short", "system", "plain">>

\* the message of a kind at position i of the history
Message(kind, i) ==
    [ts |-> 10 * i,
     subtype |-> (kind = "system"),
     text_len |-> CASE kind \in {"short", "parent_short"} -> MinTextLen - 1
                    [] kind = "long"                      -> LongTextLen
                    [] OTHER                              -> MinTextLen,
     thread_ts |-> IF kind \in {"parent", "parent_short"} THEN 10 * i ELSE None,
     reply_count |-> IF kind \in ParentKinds THEN Len(ReplyKinds) ELSE 0]

\* response.get("messages")[1:] of conversations_replies(ts=thread_ts)
Replies(thread_ts) ==
    [k \in DOMAIN ReplyKinds |->
        [ts |-> thread_ts + k,
         subtype |-> (ReplyKinds[k] = "system"),
         text_len |-> IF ReplyKinds[k] = "short" THEN MinTextLen - 1 ELSE MinTextLen,
         thread_ts |-> thread_ts,
         reply_count |-> 0]]

\* all histories of at most n messages
Histories(n) ==
    UNION {[1..len -> MessageKinds] : len \in 0..n}

\* lines 68 and 114: the permalink of a message
Permalink(ts) == <<"https://slack.com/archives/", "C1", "/p", ts>>

\* lines 56-61 and 104-109: the message is skipped
Skipped(message) == message.subtype \/ message.text_len < MinTextLen

\* lines 71-77 and 116-122
SlackMessage(message, thread_ts) ==
    [text_len |-> message.text_len, timestamp |-> message.ts,
     thread_ts |-> thread_ts, url |-> Permalink(message.ts)]

\* _fetch_thread (lines 93-125): the replies that are yielded; a SlackApiError
\* of conversations_replies is caught and nothing is yielded
RECURSIVE FetchThreadLoop(_, _)
FetchThreadLoop(messages, thread_ts) ==
    IF messages = <<>> THEN <<>>
    ELSE (IF Skipped(Head(messages)) THEN <<>>
          ELSE <<SlackMessage(Head(messages), thread_ts)>>)
         \o FetchThreadLoop(Tail(messages), thread_ts)

FetchThread(thread_ts, raises) ==
    IF raises THEN <<>> ELSE FetchThreadLoop(Replies(thread_ts), thread_ts)

\* line 80: the replies of the message are fetched
IsThreadParent(message) == message.thread_ts = None /\ message.reply_count > 0

\* lines 54-81: what one message of the history makes fetch yield
MessageYields(message, raises) ==
    IF Skipped(message) THEN <<>>
    ELSE <<SlackMessage(message, message.thread_ts)>>
         \o (IF IsThreadParent(message) THEN FetchThread(message.ts, raises) ELSE <<>>)

\* the messages of a text, by their timestamps
TextOf(conversation) == [i \in DOMAIN conversation |-> conversation[i].timestamp]

\* len(sep.join(m.text for m in messages)) for a separator of one character
RECURSIVE JoinedLen(_)
JoinedLen(messages) ==
    IF messages = <<>> THEN 0
    ELSE IF Len(messages) = 1 THEN messages[1].text_len
    ELSE messages[1].text_len + 1 + JoinedLen(Tail(messages))

\* _split_large_text (chunker.py lines 62-82) on the joined text of a group:
\* the sentences are the lines, which are the texts of the messages; current
\* is the buffer, the messages joined by " "
RECURSIVE SplitMessages(_, _, _)
SplitMessages(sentences, current, size) ==
    IF sentences = <<>> THEN (IF current # <<>> THEN <<current>> ELSE <<>>)
    ELSE LET sentence == Head(sentences)
         IN IF JoinedLen(current) + sentence.text_len > size
            THEN (IF current # <<>> THEN <<current>> ELSE <<>>)
                 \o SplitMessages(Tail(sentences), <<sentence>>, size)
            ELSE SplitMessages(Tail(sentences), Append(current, sentence), size)

\* chunk_text (chunker.py lines 21-60) on the joined text of a group, which is
\* one paragraph: one chunk when it fits chunk_size, split by lines otherwise
ChunkMessages(conversation, size) ==
    IF JoinedLen(conversation) > size
    THEN SplitMessages(conversation, <<>>, size)
    ELSE <<conversation>>

\* tasks.py lines 203-211 and 219-227: the chunks of a group.  text is the
\* content of a chunk, known by the messages it holds; part is its position
\* among the chunks of the group.
FlushConversation(conversation) ==
    LET parts == ChunkMessages(conversation, DefaultChunkSize)
    IN [part \in DOMAIN parts |->
          [url |-> conversation[1].url, text |-> TextOf(parts[part]), part |-> part]]

\* every message starts a group
StartsGroup_Always(message, last, conversation) == conversation # <<>>

\* tasks.py line 201
StartsGroup(message, last, conversation) ==
    message.thread_ts # last /\ conversation # <<>>

\* tasks.py lines 199-215: the loop over the messages fetch yields, from the
\* state g of current_conversation, last_thread and chunks
RECURSIVE GroupLoop(_, _)
GroupLoop(messages, g) ==
    IF messages = <<>> THEN g
    ELSE LET message == Head(messages)
             flush == StartsGroup(message, g.last, g.conversation)
         IN GroupLoop(Tail(messages),
                      [conversation |-> Append(IF flush THEN <<>> ELSE g.conversation,
                                               message),
                       last |-> message.thread_ts,
                       chunks |-> IF flush
                                  THEN g.chunks \o FlushConversation(g.conversation)
                                  ELSE g.chunks])

SlackOff ==
    /\ slHistory = <<>>
    /\ slpc = "off"
    /\ slPage = 0
    /\ slPos = 0
    /\ slYielded = <<>>
    /\ slApiError = FALSE
    /\ current_conversation = <<>>
    /\ last_thread = None
    /\ slChunks = <<>>

-----------------------------------------------------------------------------
(* Answer generation (app/query/llm.py).  A response text is the sequence of *)
(* its pieces; a confidence marker is three pieces long.                     *)

MarkerPieces == {"[CONFIDENCE:", "HIGH", "MEDIUM", "LOW", "]", "x", " "}

MarkerHigh == <<"[CONFIDENCE:", "HIGH", "]">>
MarkerMedium == <<"[CONFIDENCE:", "MEDIUM", "]">>
MarkerLow == <<"[CONFIDENCE:", "LOW", "]">>

\* all response texts of at most n pieces
RECURSIVE TextsUpTo(_)
TextsUpTo(n) ==
    IF n = 0 THEN {<<>>}
    ELSE LET shorter == TextsUpTo(n - 1)
         IN shorter \cup {Append(w, c) : w \in {v \in shorter : Len(v) = n - 1},
                                         c \in MarkerPieces}

\* "sub in s" for strings
HasSub(s, sub) ==
    \E i \in 1..(Len(s) - Len(sub) + 1) : SubSeq(s, i, i + Len(sub) - 1) = sub

\* full_response.replace(marker, "").strip()
StripMarker(full_response, marker) == Strip(Replace(full_response, marker, <<>>))

\* generate_answer, lines 66-80: the returned (answer, confidence)
ParseAnswer(response_text) ==
    LET full_response == Strip(response_text)
    IN IF HasSub(full_response, MarkerHigh)
       THEN [answer |-> StripMarker(full_response, MarkerHigh), confidence |-> "high"]
       ELSE IF HasSub(full_response, MarkerMedium)
       THEN [answer |-> StripMarker(full_response, MarkerMedium), confidence |-> "medium"]
       ELSE IF HasSub(full_response, MarkerLow)
       THEN [answer |-> StripMarker(full_response, MarkerLow), confidence |-> "low"]
       ELSE [answer |-> full_response, confidence |-> "medium"]

NoAnswer == [answer |-> <<>>, confidence |-> "none"]

GenOff ==
    /\ llmText = <<>>
    /\ genOut = NoAnswer
    /\ gpc = "off"

-----------------------------------------------------------------------------
(* The query pipeline (app/query/pipeline.py, app/retrieval/vector_store.py) *)
(* and the part of the message handler that calls it (app/slack/events.py).  *)
(* Distances and scores are in hundredths.                                   *)

\* pipeline.py line 39: n_results=5
NResults == 5

\* pipeline.py line 58: score < 0.3
RelevanceFloor == 30

\* pipeline.py line 85: sources[:3]
TopSourcesLimit == 3

\* vector_store.py line 69: 1 - dist
Score(dist) == 100 - dist

\* the chunks an index may hold: distance to the question, and the url and
\* file_path of the metadata ("" when the key is missing)
ChunkKinds ==
    {[dist |-> 69, url |-> "u1", file_path |-> ""],
     [dist |-> 69, url |-> "u2", file_path |-> "f1"],
     [dist |-> 69, url |-> "", file_path |-> "f1"],
     [dist |-> 70, url |-> "u1", file_path |-> ""],
     [dist |-> 70, url |-> "", file_path |-> "f2"],
     [dist |-> 70, url |-> "", file_path |-> ""],
     [dist |-> 75, url |-> "u3", file_path |-> ""],
     [dist |-> 75, url |-> "", file_path |-> ""]}

\* the text of the i-th chunk of an index
Content(i) == [k \in 1..i |-> "c"]

\* the indexes considered, of at most n chunks: nearest first, as the store
\* ranks them
RECURSIVE Collections(_)
Collections(n) ==
    IF n = 0 THEN {<<>>}
    ELSE LET shorter == Collections(n - 1)
         IN shorter \cup
            UNION {{Append(w, [content |-> Content(n), dist |-> k.dist,
                               metadata |-> [url |-> k.url, file_path |-> k.file_path]]) :
                      k \in {c \in ChunkKinds : w = <<>> \/ w[Len(w)].dist <= c.dist}} :
                   w \in {v \in shorter : Len(v) = n - 1}}

\* VectorStore.query (vector_store.py lines 52-72) with n_results results
VectorQuery(coll, n_results) ==
    [i \in 1..Min(n_results, Len(coll)) |->
        [content |-> coll[i].content, metadata |-> coll[i].metadata,
         score |-> Score(coll[i].dist)]]

\* the emptiness test never succeeds
IndexEmpty_Never(doc_count) == FALSE

\* pipeline.py line 26: doc_count == 0
IndexEmpty(doc_count) == doc_count = 0

\* the floor excludes the boundary score too
BelowFloor_Boundary(score) == score <= RelevanceFloor

\* pipeline.py line 58: score < 0.3
BelowFloor(score) == score < RelevanceFloor

\* pipeline.py line 64: metadata.get("url") or metadata.get("file_path")
SourceOf(metadata) == IF metadata.url # "" THEN metadata.url ELSE metadata.file_path

\* pipeline.py lines 52-66: the loop over the results
RECURSIVE ContextLoop(_, _, _)
ContextLoop(rs, context_parts, srcs) ==
    IF rs = <<>> THEN [context_parts |-> context_parts, sources |-> srcs]
    ELSE LET result == Head(rs)
             source == SourceOf(result.metadata)
         IN IF BelowFloor(result.score)
            THEN ContextLoop(Tail(rs), context_parts, srcs)
            ELSE ContextLoop(Tail(rs), Append(context_parts, result.content),
                             IF source # "" /\ source \notin Range(srcs)
                             THEN Append(srcs, source) ELSE srcs)

ContextSeparator == "\n\n---\n\n"

\* pipeline.py line 75: "\n\n---\n\n".join(context_parts)
RECURSIVE JoinContext(_)
JoinContext(parts) ==
    IF parts = <<>> THEN <<>>
    ELSE IF Len(parts) = 1 THEN parts[1]
    ELSE parts[1] \o <<ContextSeparator>> \o JoinContext(Tail(parts))

\* every source is returned
TopSources_All(srcs) == srcs

\* pipeline.py line 85: sources[:3]
TopSources(srcs) == SubSeq(srcs, 1, Min(TopSourcesLimit, Len(srcs)))

\* the fixed responses of pipeline.py (lines 27-31, 42-46, 69-73)
NoKnowledge ==
    [answer |-> <<"I don't have any knowledge indexed yet. Please configure my knowledge sources first!">>,
     sources |-> <<>>, confidence |-> "low"]
NoResults ==
    [answer |-> <<"I couldn't find relevant information to answer your question.">>,
     sources |-> <<>>, confidence |-> "low"]
NotRelevant ==
    [answer |-> <<"I found some content but it doesn't seem relevant to your question. Could you rephrase?">>,
     sources |-> <<>>, confidence |-> "low"]

NoResult == [answer |-> <<>>, sources |-> <<>>, confidence |-> "none"]

\* the response texts the generation capability gives in a query
SampleResponses == {<<"x">>,
                    <<"x", " ">> \o MarkerHigh,
                    <<"x", " ">> \o MarkerLow}

QueryOff ==
    /\ collection = <<>>
    /\ qpc = "off"
    /\ calls = <<>>
    /\ context = <<>>
    /\ qsources = <<>>
    /\ qresult = NoResult
    /\ raisedBy = "none"
    /\ said = <<>>
    /\ convLogs = <<>>

-----------------------------------------------------------------------------
(* Configuration and the indexing runs it starts (app/slack/modals.py,       *)
(* app/ingestion/tasks.py): every accepted submission starts a run in a      *)
(* thread of its own, so runs overlap with each other and with submissions.  *)

\* a submitted form: the documentation URLs, the operator repository URL
\* ("" when left empty, "malformed" when it has no owner/name path), the
\* issues checkbox, the operand repository URL, slack_history_days > 0
Forms ==
    {[docs |-> 1, operator |-> "", issues |-> FALSE, operand |-> "", history |-> FALSE],
     [docs |-> 0, operator |-> "malformed", issues |-> FALSE, operand |-> "", history |-> FALSE],
     [docs |-> 0, operator |-> "ok", issues |-> TRUE, operand |-> "", history |-> FALSE],
     [docs |-> 0, operator |-> "", issues |-> FALSE, operand |-> "ok", history |-> TRUE]}

NewSource(channel, type, url) ==
    [channel_id |-> channel, source_type |-> type, url |-> url, status |-> "pending"]

\* modals.py lines 228-272: the KnowledgeSource objects built from a form
FormSources(form, channel) ==
    [i \in 1..form.docs |-> NewSource(channel, "documentation", "ok")]
    \o (IF form.operator # ""
        THEN <<NewSource(channel, "github_operator", form.operator)>>
             \o (IF form.issues
                 THEN <<NewSource(channel, "github_issues", form.operator)>>
                 ELSE <<>>)
        ELSE <<>>)
    \o (IF form.operand # ""
        THEN <<NewSource(channel, "github_operand", form.operand)>> ELSE <<>>)
    \o (IF form.history THEN <<NewSource(channel, "slack_history", "ok")>> ELSE <<>>)

\* modals.py line 215: filter_by(slack_channel_id=...).first(), which is None
\* (0 here) when no row carries the id; the column is not unique
\* (models/channel.py line 18) and the query has no ORDER BY, so with several
\* rows any of them may come first
FirstChannel == IF channels = 0 THEN {0} ELSE 1..channels

\* the handlers without the one at position h, which has returned
Returns(hs, h) == SubSeq(hs, 1, h - 1) \o SubSeq(hs, h + 1, Len(hs))

\* modals.py line 226: filter_by(channel_id=channel.id).delete()
DeleteSources(tbl, channel) ==
    [id \in {i \in DOMAIN tbl : tbl[i].channel_id # channel} |-> tbl[id]]

\* the rows added under fresh ids, first id being first
AddRows(tbl, rows, first) ==
    [id \in DOMAIN tbl \cup {first + i - 1 : i \in DOMAIN rows} |->
        IF id \in DOMAIN tbl THEN tbl[id] ELSE rows[id - first + 1]]

\* tasks.py lines 48-51: filter_by(channel_id=..., status=PENDING)
PendingIds(tbl, channel) ==
    {id \in DOMAIN tbl : tbl[id].channel_id = channel /\ tbl[id].status = "pending"}

\* GitHubFetcher.__init__ and GitHubIssuesFetcher.__init__ raise ValueError on
\* a URL without owner/name, inside the run's try block
ConstructorRaises(row) ==
    /\ row.source_type \in {"github_operator", "github_operand", "github_issues"}
    /\ row.url = "malformed"

\* tasks.py lines 71-77 and VectorStore.add (vector_store.py lines 35-50): the
\* chunks of the source are added to the collection under fresh ids
VectorAdd(coll, source, run, has_chunks) ==
    IF has_chunks THEN coll \cup {[source |-> source, run |-> run]} ELSE coll

ConfigOff ==
    /\ table = <<>>
    /\ nextId = 0
    /\ submits = 0
    /\ channels = 0
    /\ handlers = <<>>
    /\ runs = <<>>
    /\ selected = {}
    /\ marks = {}
    /\ store = {}

-----------------------------------------------------------------------------
(* The indexing run *)

Ids == DOMAIN srcType

CountStatus(st) == Cardinality({s \in Ids : dbStatus[s] = st})

\* ascending list of the ids in S (the order the query returns the rows)
RECURSIVE SortedSeq(_)
SortedSeq(S) ==
    IF S = {} THEN <<>>
    ELSE LET m == CHOOSE x \in S : \A y \in S : x <= y
         IN <<m>> \o SortedSeq(S \ {m})

Logged(s, what) == [log EXCEPT ![s] = @ \cup what]

\* the for loop moves on to the next source, or leaves the loop
NextPc(rest) == IF rest = <<>> THEN "notify" ELSE "mark_indexing"

IndexInit ==
    /\ \E n \in 0..NumSources :
         /\ srcType \in [1..n -> ConfiguredTypes]
         /\ dbStatus \in [1..n -> SourceStatus]
    /\ dbError = [s \in DOMAIN dbStatus |->
                    IF dbStatus[s] = "failed" THEN 1 ELSE NoError]
    /\ sessStatus = dbStatus
    /\ pc = "idle"
    /\ sources = <<>>
    /\ chunks = 0
    /\ exc = NoExc
    /\ index = [s \in DOMAIN dbStatus |-> IF dbStatus[s] = "indexed" THEN 1 ELSE 0]
    /\ notifyCalls = <<>>
    /\ delivered = <<>>
    /\ startPending = {}
    /\ log = [s \in DOMAIN dbStatus |-> {}]
    /\ ChunkOff
    /\ CrawlOff
    /\ GhOff
    /\ QueryOff
    /\ GenOff
    /\ ConfigOff
    /\ SlackOff

\* _index_channel_sources, lines 39-53: query the channel's Pending sources
Begin ==
    /\ pc = "idle"
    /\ LET picked == {s \in Ids : dbStatus[s] = "pending"}
       IN /\ sources' = SortedSeq(picked)
          /\ startPending' = picked
          /\ pc' = NextPc(SortedSeq(picked))
    /\ UNCHANGED <<srcType, dbStatus, dbError, sessStatus, chunks, exc, index,
                   notifyCalls, delivered, log>>
    /\ UNCHANGED <<chvars, crvars, ghvars, qvars, gvars, cfvars, slvars>>

\* lines 57-58: source.status = INDEXING; db.commit()
MarkIndexing ==
    /\ pc = "mark_indexing"
    /\ LET s == Head(sources)
       IN \E commitOk \in BOOLEAN :
            IF commitOk
            THEN /\ sessStatus' = [sessStatus EXCEPT ![s] = "indexing"]
                 /\ dbStatus' = [dbStatus EXCEPT ![s] = "indexing"]
                 /\ pc' = "fetch"
                 /\ UNCHANGED <<exc, log>>
            ELSE /\ sessStatus' = [sessStatus EXCEPT ![s] = "indexing"]
                 /\ \E len \in ExcLens : exc' = len
                 /\ log' = Logged(s, {"commit_indexing"})
                 /\ pc' = "except"
                 /\ UNCHANGED dbStatus
    /\ chunks' = 0
    /\ UNCHANGED <<srcType, dbError, sources, index, notifyCalls, delivered,
                   startPending>>
    /\ UNCHANGED <<chvars, crvars, ghvars, qvars, gvars, cfvars, slvars>>

\* lines 60-71: dispatch to the fetcher of the source's type and chunk
Fetch ==
    /\ pc = "fetch"
    /\ LET s == Head(sources)
       IN \E ev \in FetchEventsOf(srcType[s]) :
            LET r == FetchChunks(srcType[s], ev)
            IN IF r.raised
               THEN /\ \E len \in ExcLens : exc' = len
                    /\ log' = Logged(s, {ev.kind, "fetch"})
                    /\ pc' = "except"
                    /\ UNCHANGED chunks
               ELSE /\ chunks' = r.chunks
                    /\ log' = Logged(s, {ev.kind})
                    /\ pc' = IF r.chunks > 0 THEN "embed_store" ELSE "mark_indexed"
                    /\ UNCHANGED exc
    /\ UNCHANGED <<srcType, dbStatus, dbError, sessStatus, sources, index,
                   notifyCalls, delivered, startPending>>
    /\ UNCHANGED <<chvars, crvars, ghvars, qvars, gvars, cfvars, slvars>>

\* lines 71-78: embedder.embed(texts); vector_store.add(texts, embeddings, metadatas)
EmbedStore ==
    /\ pc = "embed_store"
    /\ LET s == Head(sources)
       IN \E embedOk \in BOOLEAN, addOk \in BOOLEAN :
            CASE ~embedOk ->
                   /\ \E len \in ExcLens : exc' = len
                   /\ log' = Logged(s, {"embed"})
                   /\ pc' = "except"
                   /\ UNCHANGED index
              [] embedOk /\ ~addOk ->
                   /\ \E len \in ExcLens : exc' = len
                   /\ log' = Logged(s, {"store"})
                   /\ pc' = "except"
                   /\ UNCHANGED index
              [] embedOk /\ addOk ->
                   /\ index' = [index EXCEPT ![s] = @ + chunks]
                   /\ pc' = "mark_indexed"
                   /\ UNCHANGED <<exc, log>>
    /\ UNCHANGED <<srcType, dbStatus, dbError, sessStatus, sources, chunks,
                   notifyCalls, delivered, startPending>>
    /\ UNCHANGED <<chvars, crvars, ghvars, qvars, gvars, cfvars, slvars>>

\* lines 80-82: source.status = INDEXED; db.commit(); then the next source
MarkIndexed ==
    /\ pc = "mark_indexed"
    /\ LET s == Head(sources)
       IN \E commitOk \in BOOLEAN :
            IF commitOk
            THEN /\ sessStatus' = [sessStatus EXCEPT ![s] = "indexed"]
                 /\ dbStatus' = [dbStatus EXCEPT ![s] = "indexed"]
                 /\ sources' = Tail(sources)
                 /\ pc' = NextPc(Tail(sources))
                 /\ UNCHANGED <<exc, log>>
            ELSE /\ sessStatus' = [sessStatus EXCEPT ![s] = "indexed"]
                 /\ \E len \in ExcLens : exc' = len
                 /\ log' = Logged(s, {"commit_indexed"})
                 /\ pc' = "except"
                 /\ UNCHANGED <<dbStatus, sources>>
    /\ UNCHANGED <<srcType, dbError, chunks, index, notifyCalls, delivered,
                   startPending>>
    /\ UNCHANGED <<chvars, crvars, ghvars, qvars, gvars, cfvars, slvars>>

\* lines 84-94, the except block: db.rollback(); db.refresh(source);
\* source.status = FAILED; source.error_message = str(e)[:500]; db.commit();
\* and when the refresh or the commit raises: db.rollback(), give up.
\* Then the next source.
HandleFailure ==
    /\ pc = "except"
    /\ LET s == Head(sources)
       IN \E refreshOk \in BOOLEAN, commitOk \in BOOLEAN :
            IF refreshOk /\ commitOk
            THEN /\ sessStatus' = [sessStatus EXCEPT ![s] = "failed"]
                 /\ dbStatus' = [dbStatus EXCEPT ![s] = "failed"]
                 /\ dbError' = [dbError EXCEPT ![s] = Min(exc, ErrorMessageLimit)]
                 /\ UNCHANGED log
            ELSE /\ sessStatus' = [sessStatus EXCEPT ![s] = dbStatus[s]]
                 /\ log' = Logged(s, {IF refreshOk THEN "commit_failed" ELSE "refresh"})
                 /\ UNCHANGED <<dbStatus, dbError>>
    /\ exc' = NoExc
    /\ sources' = Tail(sources)
    /\ pc' = NextPc(Tail(sources))
    /\ UNCHANGED <<srcType, chunks, index, notifyCalls, delivered, startPending>>
    /\ UNCHANGED <<chvars, crvars, ghvars, qvars, gvars, cfvars, slvars>>

\* the text of the completion message: which phrasing, with which counts
ReadyMessage(indexed) == [phrase |-> "ready", indexed |-> indexed]
MixedMessage(indexed, failed) ==
    [phrase |-> "mixed", indexed |-> indexed, failed |-> failed]

\* the phrasing chosen on the wrong count
CompletionMessage_ByIndexed(indexed, failed) ==
    IF indexed > 0 THEN ReadyMessage(indexed) ELSE MixedMessage(indexed, failed)

CompletionMessage(indexed, failed) ==
    IF failed = 0 THEN ReadyMessage(indexed) ELSE MixedMessage(indexed, failed)

\* lines 96-106 with _notify_slack (lines 26-34): count the channel's Indexed
\* and Failed sources, post one message; a failing post is swallowed.
Notify ==
    /\ pc = "notify"
    /\ LET msg == CompletionMessage(CountStatus("indexed"), CountStatus("failed"))
       IN /\ notifyCalls' = Append(notifyCalls, msg)
          /\ \E postOk \in BOOLEAN :
               delivered' = IF postOk THEN Append(delivered, msg) ELSE delivered
    /\ pc' = "done"
    /\ UNCHANGED <<srcType, dbStatus, dbError, sessStatus, sources, chunks, exc,
                   index, startPending, log>>
    /\ UNCHANGED <<chvars, crvars, ghvars, qvars, gvars, cfvars, slvars>>

IndexNext ==
    \/ Begin
    \/ MarkIndexing
    \/ Fetch
    \/ EmbedStore
    \/ MarkIndexed
    \/ HandleFailure
    \/ Notify

Init == IndexInit

-----------------------------------------------------------------------------
(* The chunker on its own: a TextChunker is constructed, chunk_text is called *)
(* on a text and its generator is run to the end.                             *)

IndexOff ==
    /\ srcType = <<>>
    /\ dbStatus = <<>>
    /\ dbError = <<>>
    /\ sessStatus = <<>>
    /\ pc = "off"
    /\ sources = <<>>
    /\ chunks = 0
    /\ exc = NoExc
    /\ index = <<>>
    /\ notifyCalls = <<>>
    /\ delivered = <<>>
    /\ startPending = {}
    /\ log = <<>>

ChunkInit ==
    /\ chunk_size \in ChunkSizes
    /\ chunk_overlap \in 0..MaxOverlap
    /\ text \in StringsUpTo(MaxTextLen)
    /\ emitted = <<>>
    /\ cpc = "input"
    /\ seeded = <<>>
    /\ IndexOff
    /\ CrawlOff
    /\ GhOff
    /\ QueryOff
    /\ GenOff
    /\ ConfigOff
    /\ SlackOff

ChunkTextCall ==
    /\ cpc = "input"
    /\ emitted' = ChunkText(text, chunk_size, chunk_overlap)
    /\ seeded' = SeedEvents(text, chunk_size, chunk_overlap)
    /\ cpc' = "done"
    /\ UNCHANGED <<chunk_size, chunk_overlap, text>>
    /\ UNCHANGED <<ixvars, crvars, ghvars, qvars, gvars, cfvars, slvars>>

ChunkNext == ChunkTextCall

ChunkSpec == ChunkInit /\ [][ChunkNext]_vars

-----------------------------------------------------------------------------
(* The crawler on its own: a DocsCrawler is constructed for BaseInput and    *)
(* crawl() is run to the end.                                                 *)

CrawlInit ==
    /\ max_pages \in 1..MaxPagesBound
    /\ max_depth \in 0..MaxDepthBound
    /\ site \in [Pages -> LinkLists]
    /\ visited = {}
    /\ stack = <<>>
    /\ crpc = "start"
    /\ fetched = <<>>
    /\ yielded = <<>>
    /\ allHtml = TRUE
    /\ responses = <<>>
    /\ IndexOff
    /\ ChunkOff
    /\ GhOff
    /\ QueryOff
    /\ GenOff
    /\ ConfigOff
    /\ SlackOff

\* crawl(), line 46: _crawl_recursive(self.base_url, depth=0)
CrawlStart ==
    /\ crpc = "start"
    /\ Call(BaseUrl, 0, <<>>)
    /\ crpc' = "run"
    /\ UNCHANGED <<max_pages, max_depth, site>>
    /\ UNCHANGED <<ixvars, chvars, ghvars, qvars, gvars, cfvars, slvars>>

\* lines 96-97: the next link of the innermost call's page is followed
FollowLink ==
    /\ crpc = "run"
    /\ stack # <<>>
    /\ Head(stack).links # <<>>
    /\ LET top == Head(stack)
       IN Call(Head(top.links), top.depth + 1,
               <<[top EXCEPT !.links = Tail(@)]>> \o Tail(stack))
    /\ UNCHANGED <<max_pages, max_depth, site, crpc>>
    /\ UNCHANGED <<ixvars, chvars, ghvars, qvars, gvars, cfvars, slvars>>

\* the loop over the links is over: the innermost call returns
ReturnFromPage ==
    /\ crpc = "run"
    /\ stack # <<>>
    /\ Head(stack).links = <<>>
    /\ stack' = Tail(stack)
    /\ UNCHANGED <<max_pages, max_depth, site, visited, crpc, fetched, yielded,
                   allHtml, responses>>
    /\ UNCHANGED <<ixvars, chvars, ghvars, qvars, gvars, cfvars, slvars>>

\* crawl(), line 48: the outermost call has returned
CrawlComplete ==
    /\ crpc = "run"
    /\ stack = <<>>
    /\ crpc' = "done"
    /\ UNCHANGED <<max_pages, max_depth, site, visited, stack, fetched, yielded,
                   allHtml, responses>>
    /\ UNCHANGED <<ixvars, chvars, ghvars, qvars, gvars, cfvars, slvars>>

CrawlNext ==
    \/ CrawlStart
    \/ FollowLink
    \/ ReturnFromPage
    \/ CrawlComplete

CrawlSpec == CrawlInit /\ [][CrawlNext]_vars

-----------------------------------------------------------------------------
(* GitHubFetcher.fetch, step by step *)

GhInit ==
    /\ max_files \in 0..MaxFilesBound
    /\ fetched_count = 0
    /\ repo \in {Repo(readme, docsReadme, guide, types, nest) :
                   readme \in FileShapes \cup {"absent", "dir", "symlink"},
                   docsReadme \in FileShapes, guide \in FileShapes,
                   types \in FileShapes, nest \in {0, 1, MaxNest}}
    /\ ghpc = "start"
    /\ ghi = 1
    /\ ghstack = <<>>
    /\ ghYielded = <<>>
    /\ ghSkipped = {}
    /\ IndexOff
    /\ ChunkOff
    /\ CrawlOff
    /\ QueryOff
    /\ GenOff
    /\ ConfigOff
    /\ SlackOff

\* line 73: get_repo; a GithubException ends the fetch (lines 100-101)
GetRepo ==
    /\ ghpc = "start"
    /\ \E found \in BOOLEAN : ghpc' = IF found THEN "priority" ELSE "error"
    /\ UNCHANGED <<max_files, fetched_count, repo, ghi, ghstack, ghYielded, ghSkipped>>
    /\ UNCHANGED <<ixvars, chvars, crvars, qvars, gvars, cfvars, slvars>>

\* lines 76-84: one priority file; get_contents raises GithubException for a
\* path that does not exist and gives a list for a directory; whatever else
\* it gives is handed to _process_file
PriorityFile ==
    /\ ghpc = "priority"
    /\ ghi <= Len(PRIORITY_FILES)
    /\ ~BudgetReached(fetched_count, max_files)
    /\ LET file_path == PRIORITY_FILES[ghi]
       IN IF file_path \in DOMAIN repo /\ repo[file_path].type # "dir"
          THEN ProcessFile(repo[file_path])
          ELSE UNCHANGED <<fetched_count, ghYielded, ghSkipped>>
    /\ ghi' = ghi + 1
    /\ UNCHANGED <<max_files, repo, ghpc, ghstack>>
    /\ UNCHANGED <<ixvars, chvars, crvars, qvars, gvars, cfvars, slvars>>

\* the loop over the priority files ends, by exhaustion or by the break
PriorityDone ==
    /\ ghpc = "priority"
    /\ ghi > Len(PRIORITY_FILES) \/ BudgetReached(fetched_count, max_files)
    /\ ghpc' = After("priority")
    /\ ghi' = 1
    /\ UNCHANGED <<max_files, fetched_count, repo, ghstack, ghYielded, ghSkipped>>
    /\ UNCHANGED <<ixvars, chvars, crvars, qvars, gvars, cfvars, slvars>>

\* lines 87-90: the next operator directory is entered
OperatorDir ==
    /\ ghpc = "operator"
    /\ ghstack = <<>>
    /\ ghi <= Len(OPERATOR_DIRS)
    /\ ~BudgetReached(fetched_count, max_files)
    /\ ghstack' = FetchDirectory(OPERATOR_DIRS[ghi], 0, <<>>)
    /\ ghi' = ghi + 1
    /\ UNCHANGED <<max_files, fetched_count, repo, ghpc, ghYielded, ghSkipped>>
    /\ UNCHANGED <<ixvars, chvars, crvars, qvars, gvars, cfvars, slvars>>

\* the loop over the operator directories ends, by exhaustion or by the break
OperatorDone ==
    /\ ghpc = "operator"
    /\ ghstack = <<>>
    /\ ghi > Len(OPERATOR_DIRS) \/ BudgetReached(fetched_count, max_files)
    /\ ghpc' = After("operator")
    /\ ghi' = 1
    /\ UNCHANGED <<max_files, fetched_count, repo, ghstack, ghYielded, ghSkipped>>
    /\ UNCHANGED <<ixvars, chvars, crvars, qvars, gvars, cfvars, slvars>>

\* lines 93-96: the next documentation directory is entered
DocDir ==
    /\ ghpc = "docs"
    /\ ghstack = <<>>
    /\ ghi <= Len(DOC_DIRS)
    /\ ~BudgetReached(fetched_count, max_files)
    /\ ghstack' = FetchDirectory(DOC_DIRS[ghi], 0, <<>>)
    /\ ghi' = ghi + 1
    /\ UNCHANGED <<max_files, fetched_count, repo, ghpc, ghYielded, ghSkipped>>
    /\ UNCHANGED <<ixvars, chvars, crvars, qvars, gvars, cfvars, slvars>>

\* the loop over the documentation directories ends; line 98: fetch complete
DocsDone ==
    /\ ghpc = "docs"
    /\ ghstack = <<>>
    /\ ghi > Len(DOC_DIRS) \/ BudgetReached(fetched_count, max_files)
    /\ ghpc' = After("docs")
    /\ ghi' = 1
    /\ UNCHANGED <<max_files, fetched_count, repo, ghstack, ghYielded, ghSkipped>>
    /\ UNCHANGED <<ixvars, chvars, crvars, qvars, gvars, cfvars, slvars>>

\* lines 113-120: one item of the innermost listing, or the end of its loop
DirItem ==
    /\ ghpc \in {"operator", "docs"}
    /\ ghstack # <<>>
    /\ LET top == Head(ghstack)
       IN IF top.items = <<>> \/ BudgetReached(fetched_count, max_files)
          THEN /\ ghstack' = Tail(ghstack)
               /\ UNCHANGED <<fetched_count, ghYielded, ghSkipped>>
          ELSE LET item == repo[Head(top.items)]
                   rest == <<[top EXCEPT !.items = Tail(@)]>> \o Tail(ghstack)
               IN CASE item.type = "dir" ->
                         /\ ghstack' = FetchDirectory(item.path, top.depth + 1, rest)
                         /\ UNCHANGED <<fetched_count, ghYielded, ghSkipped>>
                    [] item.type = "file" ->
                         /\ ProcessFile(item)
                         /\ ghstack' = rest
                    [] OTHER ->
                         /\ ghstack' = rest
                         /\ UNCHANGED <<fetched_count, ghYielded, ghSkipped>>
    /\ UNCHANGED <<max_files, repo, ghpc, ghi>>
    /\ UNCHANGED <<ixvars, chvars, crvars, qvars, gvars, cfvars, slvars>>

GhNext ==
    \/ GetRepo
    \/ PriorityFile
    \/ PriorityDone
    \/ OperatorDir
    \/ OperatorDone
    \/ DocDir
    \/ DocsDone
    \/ DirItem

GhSpec == GhInit /\ [][GhNext]_vars

-----------------------------------------------------------------------------
(* generate_answer on its own *)

GenInit ==
    /\ llmText \in TextsUpTo(MaxResponseLen)
    /\ genOut = NoAnswer
    /\ gpc = "input"
    /\ IndexOff
    /\ ChunkOff
    /\ CrawlOff
    /\ GhOff
    /\ QueryOff
    /\ ConfigOff
    /\ SlackOff

\* llm.py lines 57-80: the capability responds and the response is parsed
GenerateAnswer ==
    /\ gpc = "input"
    /\ genOut' = ParseAnswer(llmText)
    /\ gpc' = "returned"
    /\ UNCHANGED llmText
    /\ UNCHANGED <<ixvars, chvars, crvars, ghvars, qvars, cfvars, slvars>>

\* llm.py lines 82-84: the capability raises, generate_answer raises
GenerateApiError ==
    /\ gpc = "input"
    /\ gpc' = "raised"
    /\ UNCHANGED <<llmText, genOut>>
    /\ UNCHANGED <<ixvars, chvars, crvars, ghvars, qvars, cfvars, slvars>>

GenNext ==
    \/ GenerateAnswer
    \/ GenerateApiError

GenSpec == GenInit /\ [][GenNext]_vars

-----------------------------------------------------------------------------
(* answer_question and the handler around it, step by step *)

QueryInit ==
    /\ collection \in Collections(MaxIndexed)
    /\ qpc = "start"
    /\ calls = <<>>
    /\ context = <<>>
    /\ qsources = <<>>
    /\ qresult = NoResult
    /\ raisedBy = "none"
    /\ said = <<>>
    /\ convLogs = <<>>
    /\ IndexOff
    /\ ChunkOff
    /\ CrawlOff
    /\ GhOff
    /\ GenOff
    /\ ConfigOff
    /\ SlackOff

\* pipeline.py lines 25-31: count the chunks, return at once when there are none
CountDocs ==
    /\ qpc = "start"
    /\ calls' = Append(calls, "count")
    /\ IF IndexEmpty(Len(collection))
       THEN /\ qresult' = NoKnowledge
            /\ qpc' = "returned"
       ELSE /\ qpc' = "embed"
            /\ UNCHANGED qresult
    /\ UNCHANGED <<collection, context, qsources, raisedBy, said, convLogs>>
    /\ UNCHANGED <<ixvars, chvars, crvars, ghvars, gvars, cfvars, slvars>>

\* pipeline.py line 36: embed the question; an exception leaves answer_question
EmbedQuery ==
    /\ qpc = "embed"
    /\ calls' = Append(calls, "embed")
    /\ \E ok \in BOOLEAN :
         IF ok THEN qpc' = "query" /\ UNCHANGED raisedBy
         ELSE qpc' = "raised" /\ raisedBy' = "embed"
    /\ UNCHANGED <<collection, context, qsources, qresult, said, convLogs>>
    /\ UNCHANGED <<ixvars, chvars, crvars, ghvars, gvars, cfvars, slvars>>

\* pipeline.py lines 39-75: query the index (an exception inside the store
\* gives no results), filter by score, collect context and sources
QueryIndex ==
    /\ qpc = "query"
    /\ calls' = Append(calls, "query")
    /\ \E ok \in BOOLEAN :
         LET results == IF ok THEN VectorQuery(collection, NResults) ELSE <<>>
             kept == ContextLoop(results, <<>>, <<>>)
         IN IF results = <<>>
            THEN /\ qresult' = NoResults
                 /\ qpc' = "returned"
                 /\ UNCHANGED <<context, qsources>>
            ELSE IF kept.context_parts = <<>>
            THEN /\ qresult' = NotRelevant
                 /\ qpc' = "returned"
                 /\ UNCHANGED <<context, qsources>>
            ELSE /\ context' = JoinContext(kept.context_parts)
                 /\ qsources' = kept.sources
                 /\ qpc' = "generate"
                 /\ UNCHANGED qresult
    /\ UNCHANGED <<collection, raisedBy, said, convLogs>>
    /\ UNCHANGED <<ixvars, chvars, crvars, ghvars, gvars, cfvars, slvars>>

\* pipeline.py lines 80-91: generate the answer; any exception becomes a
\* RuntimeError raised to the caller
Generate ==
    /\ qpc = "generate"
    /\ calls' = Append(calls, "generate")
    /\ \/ \E response_text \in SampleResponses :
            LET parsed == ParseAnswer(response_text)
            IN /\ qresult' = [answer |-> parsed.answer,
                              sources |-> TopSources(qsources),
                              confidence |-> parsed.confidence]
               /\ qpc' = "returned"
               /\ UNCHANGED raisedBy
       \/ /\ qpc' = "raised"
          /\ raisedBy' = "generate"
          /\ UNCHANGED qresult
    /\ UNCHANGED <<collection, context, qsources, said, convLogs>>
    /\ UNCHANGED <<ixvars, chvars, crvars, ghvars, gvars, cfvars, slvars>>

\* events.py lines 135-145: answer_question returned; the conversation is
\* logged.  When the commit raises, the handler goes to its except block.
LogConversation ==
    /\ qpc = "returned"
    /\ \E commitOk \in BOOLEAN :
         IF commitOk
         THEN /\ convLogs' = Append(convLogs, qresult)
              /\ qpc' = "logged"
         ELSE /\ qpc' = "except"
              /\ UNCHANGED convLogs
    /\ UNCHANGED <<collection, calls, context, qsources, qresult, raisedBy, said>>
    /\ UNCHANGED <<ixvars, chvars, crvars, ghvars, gvars, cfvars, slvars>>

\* events.py lines 148-154: the answer is posted in the thread.  When the
\* post raises, the handler goes to its except block.
ReplyWithAnswer ==
    /\ qpc = "logged"
    /\ said' = Append(said, "answer")
    /\ \E sayOk \in BOOLEAN : qpc' = IF sayOk THEN "replied" ELSE "except"
    /\ UNCHANGED <<collection, calls, context, qsources, qresult, raisedBy, convLogs>>
    /\ UNCHANGED <<ixvars, chvars, crvars, ghvars, gvars, cfvars, slvars>>

\* nothing is posted by the except block
ReplyWithApology_Silent ==
    /\ qpc \in {"raised", "except"}
    /\ qpc' = "replied"
    /\ UNCHANGED <<collection, calls, context, qsources, qresult, raisedBy, said,
                   convLogs>>
    /\ UNCHANGED <<ixvars, chvars, crvars, ghvars, gvars, cfvars, slvars>>

\* events.py lines 156-161, the except block: answer_question, the commit of
\* the log or the post of the answer raised; the apology is posted
ReplyWithApology ==
    /\ qpc \in {"raised", "except"}
    /\ said' = Append(said, "apology")
    /\ qpc' = "replied"
    /\ UNCHANGED <<collection, calls, context, qsources, qresult, raisedBy, convLogs>>
    /\ UNCHANGED <<ixvars, chvars, crvars, ghvars, gvars, cfvars, slvars>>

QueryNext ==
    \/ CountDocs
    \/ EmbedQuery
    \/ QueryIndex
    \/ Generate
    \/ LogConversation
    \/ ReplyWithAnswer
    \/ ReplyWithApology

QuerySpec == QueryInit /\ [][QueryNext]_vars

-----------------------------------------------------------------------------
(* handle_config_submit and the threads of _index_channel_sources *)

ConfigInit ==
    /\ table = <<>>
    /\ nextId = 1
    /\ submits = 0
    /\ channels = 0
    /\ handlers = <<>>
    /\ runs = <<>>
    /\ selected = {}
    /\ marks = {}
    /\ store = {}
    /\ IndexOff
    /\ ChunkOff
    /\ CrawlOff
    /\ GhOff
    /\ QueryOff
    /\ GenOff
    /\ SlackOff

\* handle_config_submit, modals.py lines 175-215: the form is read, the
\* workspace and the channel are asked for, and the MonitoredChannel row of
\* the Slack channel is queried.  When a call raises, the handler ends in its
\* except block (lines 292-297) and nothing is changed.
ConfigLookup ==
    /\ submits < MaxSubmits
    /\ submits' = submits + 1
    /\ \E form \in Forms, raises \in BOOLEAN :
         IF raises
         THEN UNCHANGED handlers
         ELSE \E channel \in FirstChannel :
                handlers' = Append(handlers, [pc |-> "found", form |-> form,
                                              channel |-> channel])
    /\ UNCHANGED <<table, nextId, channels, runs, selected, marks, store>>
    /\ UNCHANGED <<ixvars, chvars, crvars, ghvars, qvars, gvars, slvars>>

\* handle_config_submit, modals.py lines 216-276: the handler acts on what its
\* query gave.  Without a row it inserts a MonitoredChannel row of its own,
\* with a row it deletes the sources of that row; the sources of the form are
\* inserted for the row, all in one commit.  When the commit raises, nothing
\* is changed and the handler ends in its except block.
ConfigSubmit ==
    \E h \in DOMAIN handlers :
        /\ handlers[h].pc = "found"
        /\ \E raises \in BOOLEAN :
             IF raises
             THEN /\ handlers' = Returns(handlers, h)
                  /\ UNCHANGED <<table, nextId, channels>>
             ELSE LET found == handlers[h].channel
                      channel == IF found = 0 THEN channels + 1 ELSE found
                      rows == FormSources(handlers[h].form, channel)
                      kept == IF found = 0 THEN table
                              ELSE DeleteSources(table, channel)
                  IN /\ table' = AddRows(kept, rows, nextId)
                     /\ nextId' = nextId + Len(rows)
                     /\ channels' = IF found = 0 THEN channels + 1 ELSE channels
                     /\ handlers' = [handlers EXCEPT ![h].pc = "committed",
                                                     ![h].channel = channel]
        /\ UNCHANGED <<submits, runs, selected, marks, store>>
        /\ UNCHANGED <<ixvars, chvars, crvars, ghvars, qvars, gvars, slvars>>

\* handle_config_submit, modals.py lines 279-288: the confirmation is posted
\* and trigger_indexing(channel.id) starts a thread (tasks.py lines 19-23);
\* when the post raises no thread is started
TriggerIndexing ==
    \E h \in DOMAIN handlers :
        /\ handlers[h].pc = "committed"
        /\ handlers' = Returns(handlers, h)
        /\ \E postOk \in BOOLEAN :
             runs' = IF postOk
                     THEN Append(runs, [pc |-> "spawned",
                                        channel |-> handlers[h].channel,
                                        list |-> <<>>, chunks |-> FALSE,
                                        picked |-> {}])
                     ELSE runs
        /\ UNCHANGED <<table, nextId, submits, channels, selected, marks, store>>
        /\ UNCHANGED <<ixvars, chvars, crvars, ghvars, qvars, gvars, slvars>>

\* a wrong filter: every source that is not Indexed is picked again
RunStart_PicksNotIndexed ==
    \E r \in DOMAIN runs :
        /\ runs[r].pc = "spawned"
        /\ LET ids == {id \in DOMAIN table :
                          /\ table[id].channel_id = runs[r].channel
                          /\ table[id].status # "indexed"}
           IN /\ runs' = [runs EXCEPT ![r].pc = "loop", ![r].list = SortedSeq(ids),
                                       ![r].picked = ids]
              /\ selected' = selected \cup ids
        /\ UNCHANGED <<table, nextId, submits, channels, handlers, marks, store>>
        /\ UNCHANGED <<ixvars, chvars, crvars, ghvars, qvars, gvars, slvars>>

\* tasks.py lines 39-51: the thread opens its session and queries the Pending
\* sources of its channel row; picked is the result of the query, list the part
\* of it the for loop has still to go through
RunStart ==
    \E r \in DOMAIN runs :
        /\ runs[r].pc = "spawned"
        /\ LET ids == PendingIds(table, runs[r].channel)
           IN /\ runs' = [runs EXCEPT ![r].pc = "loop", ![r].list = SortedSeq(ids),
                                       ![r].picked = ids]
              /\ selected' = selected \cup ids
        /\ UNCHANGED <<table, nextId, submits, channels, handlers, marks, store>>
        /\ UNCHANGED <<ixvars, chvars, crvars, ghvars, qvars, gvars, slvars>>

\* tasks.py lines 57-58: status = INDEXING is committed; the UPDATE of a row
\* that was deleted meanwhile raises, as may any commit
RunMarkIndexing ==
    \E r \in DOMAIN runs :
        /\ runs[r].pc = "loop"
        /\ runs[r].list # <<>>
        /\ LET s == Head(runs[r].list)
           IN \E ok \in BOOLEAN :
                IF ok /\ s \in DOMAIN table
                THEN /\ table' = [table EXCEPT ![s].status = "indexing"]
                     /\ runs' = [runs EXCEPT ![r].pc = "marked"]
                     /\ marks' = marks \cup {<<s, r>>}
                ELSE /\ runs' = [runs EXCEPT ![r].pc = "failing"]
                     /\ UNCHANGED <<table, marks>>
        /\ UNCHANGED <<nextId, submits, channels, handlers, selected, store>>
        /\ UNCHANGED <<ixvars, chvars, crvars, ghvars, qvars, gvars, slvars>>

\* tasks.py lines 60-69: the row is read and the source is fetched and
\* chunked; reading the attributes of a deleted row raises, a malformed
\* repository URL raises, the fetch may raise
RunFetch ==
    \E r \in DOMAIN runs :
        /\ runs[r].pc = "marked"
        /\ LET s == Head(runs[r].list)
           IN \E ok \in BOOLEAN, has_chunks \in BOOLEAN :
                IF ok /\ s \in DOMAIN table /\ ~ConstructorRaises(table[s])
                THEN runs' = [runs EXCEPT ![r].pc = "fetched", ![r].chunks = has_chunks]
                ELSE runs' = [runs EXCEPT ![r].pc = "failing"]
        /\ UNCHANGED <<table, nextId, submits, channels, handlers, selected, marks,
                       store>>
        /\ UNCHANGED <<ixvars, chvars, crvars, ghvars, qvars, gvars, slvars>>

\* tasks.py lines 71-78: the chunks, when there are any, are embedded and
\* added to the collection; the row is not read again; the embedding or the
\* add may raise, and then nothing is stored
RunWork ==
    \E r \in DOMAIN runs :
        /\ runs[r].pc = "fetched"
        /\ LET s == Head(runs[r].list)
           IN \E ok \in BOOLEAN :
                IF ok \/ ~runs[r].chunks
                THEN /\ runs' = [runs EXCEPT ![r].pc = "worked"]
                     /\ store' = VectorAdd(store, s, r, runs[r].chunks)
                ELSE /\ runs' = [runs EXCEPT ![r].pc = "failing"]
                     /\ UNCHANGED store
        /\ UNCHANGED <<table, nextId, submits, channels, handlers, selected, marks>>
        /\ UNCHANGED <<ixvars, chvars, crvars, ghvars, qvars, gvars, slvars>>

\* tasks.py lines 80-82: status = INDEXED is committed
RunMarkIndexed ==
    \E r \in DOMAIN runs :
        /\ runs[r].pc = "worked"
        /\ LET s == Head(runs[r].list)
           IN \E ok \in BOOLEAN :
                IF ok /\ s \in DOMAIN table
                THEN /\ table' = [table EXCEPT ![s].status = "indexed"]
                     /\ runs' = [runs EXCEPT ![r].pc = "loop", ![r].list = Tail(@),
                                              ![r].chunks = FALSE]
                ELSE /\ runs' = [runs EXCEPT ![r].pc = "failing"]
                     /\ UNCHANGED table
        /\ UNCHANGED <<nextId, submits, channels, handlers, selected, marks, store>>
        /\ UNCHANGED <<ixvars, chvars, crvars, ghvars, qvars, gvars, slvars>>

\* tasks.py lines 84-94: rollback, refresh, status = FAILED is committed; when
\* the refresh or the commit raises the run gives up on the source
RunHandleFailure ==
    \E r \in DOMAIN runs :
        /\ runs[r].pc = "failing"
        /\ LET s == Head(runs[r].list)
           IN \E ok \in BOOLEAN :
                IF ok /\ s \in DOMAIN table
                THEN table' = [table EXCEPT ![s].status = "failed"]
                ELSE UNCHANGED table
        /\ runs' = [runs EXCEPT ![r].pc = "loop", ![r].list = Tail(@),
                                 ![r].chunks = FALSE]
        /\ UNCHANGED <<nextId, submits, channels, handlers, selected, marks, store>>
        /\ UNCHANGED <<ixvars, chvars, crvars, ghvars, qvars, gvars, slvars>>

\* tasks.py lines 96-106: the loop is over, the completion message is sent
RunNotify ==
    \E r \in DOMAIN runs :
        /\ runs[r].pc = "loop"
        /\ runs[r].list = <<>>
        /\ runs' = [runs EXCEPT ![r].pc = "done"]
        /\ UNCHANGED <<table, nextId, submits, channels, handlers, selected, marks,
                       store>>
        /\ UNCHANGED <<ixvars, chvars, crvars, ghvars, qvars, gvars, slvars>>

ConfigNext ==
    \/ ConfigLookup
    \/ ConfigSubmit
    \/ TriggerIndexing
    \/ RunStart
    \/ RunMarkIndexing
    \/ RunFetch
    \/ RunWork
    \/ RunMarkIndexed
    \/ RunHandleFailure
    \/ RunNotify

ConfigSpec == ConfigInit /\ [][ConfigNext]_vars

-----------------------------------------------------------------------------
(* _index_slack_history on its own: the fetcher runs over the history of a   *)
(* channel and the loop of _index_slack_history consumes what it yields.     *)

SlackInit ==
    /\ slHistory \in {[i \in DOMAIN h |-> Message(h[i], i)] : h \in Histories(MaxMessages)}
    /\ slpc = "start"
    /\ slPage = 0
    /\ slPos = 1
    /\ slYielded = <<>>
    /\ slApiError = FALSE
    /\ current_conversation = <<>>
    /\ last_thread = None
    /\ slChunks = <<>>
    /\ IndexOff
    /\ ChunkOff
    /\ CrawlOff
    /\ GhOff
    /\ QueryOff
    /\ GenOff
    /\ ConfigOff

\* the last position of the pages fetched so far
PageEndPos == Min(slPage * PageLimit, Len(slHistory))

\* slack_history.py line 42: conversations_info; a SlackApiError ends the
\* fetch (line 90)
ChannelInfo ==
    /\ slpc = "start"
    /\ \E raises \in BOOLEAN :
         /\ slpc' = IF raises THEN "flush" ELSE "page"
         /\ slApiError' = raises
    /\ UNCHANGED <<slHistory, slPage, slPos, slYielded, current_conversation,
                   last_thread, slChunks>>
    /\ UNCHANGED <<ixvars, chvars, crvars, ghvars, qvars, gvars, cfvars>>

\* lines 47-52: the next page of the history; a SlackApiError ends the fetch
HistoryPage ==
    /\ slpc = "page"
    /\ \E raises \in BOOLEAN :
         IF raises
         THEN /\ slpc' = "flush"
              /\ slApiError' = TRUE
              /\ UNCHANGED slPage
         ELSE /\ slpc' = "messages"
              /\ slPage' = slPage + 1
              /\ UNCHANGED slApiError
    /\ UNCHANGED <<slHistory, slPos, slYielded, current_conversation, last_thread,
                   slChunks>>
    /\ UNCHANGED <<ixvars, chvars, crvars, ghvars, qvars, gvars, cfvars>>

\* lines 54-81: one message of the page, its replies included, and the loop
\* of _index_slack_history (tasks.py lines 199-215) over what is yielded
HistoryMessage ==
    /\ slpc = "messages"
    /\ slPos <= PageEndPos
    /\ \E raises \in BOOLEAN :
         /\ raises => IsThreadParent(slHistory[slPos]) /\ ~Skipped(slHistory[slPos])
         /\ LET yields == MessageYields(slHistory[slPos], raises)
                g == GroupLoop(yields, [conversation |-> current_conversation,
                                        last |-> last_thread, chunks |-> slChunks])
            IN /\ slYielded' = slYielded \o yields
               /\ current_conversation' = g.conversation
               /\ last_thread' = g.last
               /\ slChunks' = g.chunks
         /\ slApiError' = (slApiError \/ raises)
    /\ slPos' = slPos + 1
    /\ UNCHANGED <<slHistory, slpc, slPage>>
    /\ UNCHANGED <<ixvars, chvars, crvars, ghvars, qvars, gvars, cfvars>>

\* lines 84-86: the page is over; with a next_cursor the next page is asked for
PageOver ==
    /\ slpc = "messages"
    /\ slPos > PageEndPos
    /\ slpc' = IF slPage * PageLimit < Len(slHistory) THEN "page" ELSE "flush"
    /\ UNCHANGED <<slHistory, slPage, slPos, slYielded, slApiError,
                   current_conversation, last_thread, slChunks>>
    /\ UNCHANGED <<ixvars, chvars, crvars, ghvars, qvars, gvars, cfvars>>

\* tasks.py lines 217-229: fetch is exhausted, the remaining group is flushed
FlushRemaining ==
    /\ slpc = "flush"
    /\ slChunks' = IF current_conversation # <<>>
                   THEN slChunks \o FlushConversation(current_conversation)
                   ELSE slChunks
    /\ slpc' = "done"
    /\ UNCHANGED <<slHistory, slPage, slPos, slYielded, slApiError,
                   current_conversation, last_thread>>
    /\ UNCHANGED <<ixvars, chvars, crvars, ghvars, qvars, gvars, cfvars>>

SlackNext ==
    \/ ChannelInfo
    \/ HistoryPage
    \/ HistoryMessage
    \/ PageOver
    \/ FlushRemaining

SlackSpec == SlackInit /\ [][SlackNext]_vars

Next == IndexNext

Spec == Init /\ [][Next]_vars

-----------------------------------------------------------------------------
(* Properties of the indexing run *)

Terminal == {"indexed", "failed"}

\* the steps inside the try block of one source
TrySteps == {"commit_indexing", "fetch", "embed", "store", "commit_indexed"}
\* the steps of the except block that record the failure
RecordSteps == {"refresh", "commit_failed"}

RaisedIn(s, steps) == log[s] \cap steps # {}

\* C1: when the run has finished, every source that was Pending when the run
\* started is Indexed or Failed, whatever fetch, embed, store, the commits and
\* the reload did.
C1_EveryPendingSourceEndsTerminal ==
    pc = "done" => \A s \in startPending : dbStatus[s] \in Terminal

\* the run r is the only one whose query (tasks.py lines 48-51) returned the
\* source id
PickedByAnother(id, r) == \E q \in DOMAIN runs \ {r} : id \in runs[q].picked

\* the step is taken by run r while it works on the source id
WorksOn(r, id) ==
    /\ runs'[r] # runs[r]
    /\ runs[r].list # <<>>
    /\ Head(runs[r].list) = id

\* a run that queries its sources gets Pending sources only
PicksPendingOnly ==
    \A r \in DOMAIN runs :
       (runs[r].pc = "spawned" /\ runs'[r].pc # "spawned")
       => \A id \in runs'[r].picked :
             id \in DOMAIN table /\ table[id].status = "pending"

C3_FailureRecordedAndIsolated ==
    pc = "done" =>
      \A s \in startPending :
        IF RaisedIn(s, TrySteps \cup RecordSteps)
        THEN dbStatus[s] = "failed" /\ dbError[s] \in 0..ErrorMessageLimit
        ELSE dbStatus[s] = "indexed"

\* C4: two documentation sources, one whose page fetches fail on the network
\* or with an HTTP error and one whose fetch succeeds: the run leaves one
\* Failed and one Indexed source and posts one mixed-result message.
C4_OneFailedOneIndexedMixed ==
    (/\ pc = "done"
     /\ Ids = {1, 2}
     /\ startPending = {1, 2}
     /\ \A s \in Ids : srcType[s] = "documentation"
     /\ \E a \in Ids, b \in Ids :
          /\ a # b
          /\ log[a] \in {{"http_error"}, {"net_error"}}
          /\ log[b] = {"ok"}
          /\ index[b] > 0)
    => /\ CountStatus("failed") = 1
       /\ CountStatus("indexed") = 1
       /\ notifyCalls = <<MixedMessage(1, 1)>>

\* C5: a run calls the completion notification exactly once, after the last
\* source of the run was processed; the message has the success-only phrasing
\* exactly when no source of the channel is Failed, and otherwise the mixed
\* phrasing with the numbers of Indexed and Failed sources.
C5_OneCompletionNotification ==
    /\ Len(notifyCalls) <= 1
    /\ notifyCalls # <<>> => pc = "done" /\ sources = <<>>
    /\ pc = "done" =>
         /\ Len(notifyCalls) = 1
         /\ notifyCalls[1].phrase \in {"ready", "mixed"}
         /\ notifyCalls[1].phrase = "ready" <=> CountStatus("failed") = 0
         /\ notifyCalls[1].indexed = CountStatus("indexed")
         /\ notifyCalls[1].phrase = "mixed" =>
              notifyCalls[1].failed = CountStatus("failed")

\* a finished run of two sources, one Indexed and one Failed, with its message
C5_Witness ==
    /\ pc = "done"
    /\ Cardinality(startPending) = 2
    /\ CountStatus("indexed") = 1
    /\ CountStatus("failed") = 1
    /\ Len(notifyCalls) = 1

-----------------------------------------------------------------------------
(* Properties of the chunker *)

Contains(s, c) == \E i \in 1..Len(s) : s[i] = c

HasDotSpace(s) == \E i \in 1..(Len(s) - 1) : s[i] = "." /\ s[i + 1] = " "

\* one single sentence: no ". " and no newline inside
SingleSentence(s) == ~Contains(s, "\n") /\ ~HasDotSpace(s)

\* C6: every emitted chunk has at most chunk_size characters, except a chunk
\* that is one single sentence longer than chunk_size.
C6_ChunkWithinSize ==
    cpc = "done" =>
      \A i \in 1..Len(emitted) :
        \/ Len(emitted[i].content) <= chunk_size
        \/ SingleSentence(emitted[i].content)

\* C7 as stated: a text shorter than chunk_size that is not whitespace-only
\* gives exactly one chunk, equal to the trimmed text.
C7_ShortTextIsOneTrimmedChunk ==
    (cpc = "done" /\ Len(text) < chunk_size /\ Strip(text) # <<>>) =>
      /\ Len(emitted) = 1
      /\ emitted[1].content = Strip(text)

\* the paragraphs of a text that chunk_text keeps: trimmed, the empty ones dropped
RECURSIVE KeptParagraphs(_)
KeptParagraphs(ps) ==
    IF ps = <<>> THEN <<>>
    ELSE IF Strip(Head(ps)) = <<>> THEN KeptParagraphs(Tail(ps))
         ELSE <<Strip(Head(ps))>> \o KeptParagraphs(Tail(ps))

RECURSIVE JoinBlank2(_)
JoinBlank2(ps) ==
    IF ps = <<>> THEN <<>>
    ELSE IF Len(ps) = 1 THEN ps[1]
         ELSE ps[1] \o Blank2 \o JoinBlank2(Tail(ps))

\* no paragraph of the trimmed text is empty or starts or ends with whitespace
CleanParagraphs(t) ==
    \A i \in DOMAIN Split(Strip(t), Blank2) :
      LET p == Split(Strip(t), Blank2)[i] IN p # <<>> /\ Strip(p) = p

\* C7 amended: a text shorter than chunk_size that is not whitespace-only gives
\* exactly one chunk: the trimmed text with every paragraph trimmed and the
\* empty paragraphs dropped, which is the trimmed text itself when no paragraph
\* is empty or starts or ends with whitespace.
C7_ShortTextIsOneChunk ==
    (cpc = "done" /\ Len(text) < chunk_size /\ Strip(text) # <<>>) =>
      /\ Len(emitted) = 1
      /\ emitted[1].content = JoinBlank2(KeptParagraphs(Split(Strip(text), Blank2)))
      /\ CleanParagraphs(text) => emitted[1].content = Strip(text)

\* a short text of two paragraphs with whitespace around it came out as one
\* chunk equal to the trimmed text
C7_Witness ==
    /\ cpc = "done"
    /\ Len(text) < chunk_size
    /\ text # Strip(text)
    /\ Len(Split(Strip(text), Blank2)) = 2
    /\ CleanParagraphs(text)
    /\ Len(emitted) = 1
    /\ emitted[1].content = Strip(text)

\* str.split(): the maximal runs of non-whitespace characters
RECURSIVE WordsAcc(_, _)
WordsAcc(s, cur) ==
    IF s = <<>> THEN (IF cur = <<>> THEN <<>> ELSE <<cur>>)
    ELSE IF Head(s) \in Whitespace
         THEN (IF cur = <<>> THEN <<>> ELSE <<cur>>) \o WordsAcc(Tail(s), <<>>)
         ELSE WordsAcc(Tail(s), Append(cur, Head(s)))

Words(s) == WordsAcc(s, <<>>)

\* a chunk's content after its overlap prefix
AfterOverlap(c) == Drop(c.content, Len(LStrip(c.overlap)))

RECURSIVE WordsOfChunks(_)
WordsOfChunks(cs) ==
    IF cs = <<>> THEN <<>>
    ELSE Words(AfterOverlap(Head(cs))) \o WordsOfChunks(Tail(cs))

\* C8: the chunks in emission order, each without its overlap prefix, hold the
\* non-blank character runs of the text, each once and in the original order.
C8_ChunksCoverText ==
    cpc = "done" =>
      /\ \A i \in 1..Len(emitted) :
           StartsWith(emitted[i].content, LStrip(emitted[i].overlap))
      /\ WordsOfChunks(emitted) = Words(text)

\* a text came out as two chunks, the second seeded with an overlap of the first
C8_Witness ==
    /\ cpc = "done"
    /\ Len(emitted) = 2
    /\ emitted[2].overlap # <<>>
    /\ Len(Words(text)) >= 2

-----------------------------------------------------------------------------
(* Properties of the crawler *)

\* no URL occurs twice in the list, also not in another spelling
OncePerNormalizedUrl(urls) ==
    \A i \in 1..Len(urls), j \in 1..Len(urls) :
      Normalize(urls[i]) = Normalize(urls[j]) => i = j

\* C9: during one crawl each normalized URL (fragment and trailing slashes
\* stripped) is fetched at most once and yielded as a page at most once, on
\* any link graph, with cycles and with links that differ only in fragment or
\* trailing slash.
C9_EachUrlAtMostOnce ==
    /\ OncePerNormalizedUrl(fetched)
    /\ OncePerNormalizedUrl(yielded)
    /\ \A i \in 1..Len(fetched) : fetched[i] = Normalize(fetched[i])

\* a finished crawl of a site where the base page links to a and b, a links to
\* itself in two spellings, b links back to the base page with a fragment,
\* and base, a and b were each yielded
C9_Witness ==
    /\ crpc = "done"
    /\ site[Docs] = Within("main", <<PageA, PageB>>)
    /\ site[PageA] = Within("main", <<PageASlash, PageAFrag>>)
    /\ site[PageB] = Within("main", <<PageC, DocsFrag>>)
    /\ {Docs, PageA, PageB} \subseteq Range(yielded)

\* the in-scope pages that a path of at most d links leads to from the base
\* URL; a link is an anchor of a page, in whatever element of the page it lies
RECURSIVE ReachWithin(_)
ReachWithin(d) ==
    IF d = 0
    THEN {u \in {Normalize(BaseUrl)} : IsValidUrl(u)}
    ELSE LET near == ReachWithin(d - 1)
             linked == UNION {{Normalize(Hrefs(p)[i]) : i \in DOMAIN Hrefs(p)} :
                              p \in near}
         IN near \cup {u \in linked : IsValidUrl(u)}

\* C10 (its safety part): the number of visited URLs never exceeds max_pages,
\* and when at least max_pages in-scope pages are within max_depth links of
\* the base URL (and every fetch gives an HTML page), the finished crawl has
\* visited exactly max_pages URLs.
C10_VisitsExactlyBudget ==
    /\ Cardinality(visited) <= max_pages
    /\ (/\ crpc = "done"
        /\ allHtml
        /\ Cardinality(ReachWithin(max_depth)) >= max_pages)
       => Cardinality(visited) = max_pages

\* the part of C10 that holds: the crawl never visits more than max_pages URLs
C10_NeverOverBudget == Cardinality(visited) <= max_pages

\* ---------------------------------------------------------------------------
\* crawl scoping

\* the blocked extensions, as the scoping rule names them
BlockedExtensions == {".pdf", ".zip", ".tar", ".gz", ".png", ".jpg", ".gif",
                      ".svg", ".css", ".js"}

\* in scope for base https://ex.com/docs: same host, path (trailing slash
\* stripped) under /docs, no blocked extension
InScope(u) ==
    LET path == RStripSlash(UrlPath(u))
    IN /\ Len(u) >= 2 /\ u[1] = "https://" /\ u[2] = "ex.com"
       /\ Len(path) >= 2 /\ path[1] = "/" /\ path[2] = "docs"
       /\ Lower(path[Len(path)]) \notin BlockedExtensions

\* C11: a URL is visited only if its host is the base host, its path (trailing
\* slash stripped) starts with the base path prefix and does not end in a
\* blocked extension; with base https://ex.com/docs, /docs/a is eligible and
\* /blog, other.com/docs and /docs/file.pdf are never visited.
C11_VisitedOnlyInScope ==
    /\ \A u \in visited : InScope(u)
    /\ \A i \in 1..Len(fetched) : InScope(fetched[i])
    /\ visited \cap {Blog, Other, Pdf, PdfUpper} = {}
    /\ InScope(PageA) /\ IsValidUrl(PageA)

\* a finished crawl in which /docs/a was yielded, its page linked to /blog,
\* other.com/docs, /docs/file.pdf and /docs/c, and /docs/c was followed
C11_Witness ==
    /\ crpc = "done"
    /\ site[Docs] = Within("main", <<PageA, PageB>>)
    /\ site[PageA] = Within("main", <<Blog, Other, Pdf, PdfUpper, DocsOldX, PageC>>)
    /\ PageA \in Range(yielded)
    /\ PageC \in visited

\* ---------------------------------------------------------------------------
\* repository fetch

\* C12: on every repository tree and for every max_files >= 0, fetch yields at
\* most max_files files over its three phases and never a file above 500000
\* bytes; files skipped for size, extension or decode failure do not consume
\* the budget (the budget counter counts exactly the files yielded).
C12_AtMostMaxFilesNoneOversized ==
    /\ Len(ghYielded) <= max_files
    /\ \A i \in 1..Len(ghYielded) : ghYielded[i].size <= 500000
    /\ fetched_count = Len(ghYielded)

\* a finished fetch that used its whole budget of at least two files, the
\* last of them from a documentation directory, after skipping a file for each
\* of the three reasons
C12_Witness ==
    /\ ghpc = "done"
    /\ max_files >= 2
    /\ Len(ghYielded) = max_files
    /\ ghSkipped = {"size", "extension", "decode"}
    /\ ghYielded[Len(ghYielded)].path = GuidePath

\* ---------------------------------------------------------------------------
\* query pipeline

Called(what) == what \in Range(calls)

\* answer_question returned a result (the handler may have gone on since)
Returned_ == qpc \in {"returned", "logged", "except", "replied"} /\ raisedBy = "none"

\* C13: when the channel's index holds zero chunks, answer_question returns
\* confidence low and an empty source list, and makes neither the embedding
\* call, nor the index query, nor the generation call.
C13_EmptyIndexShortCircuits ==
    collection = <<>> =>
      /\ ~Called("embed") /\ ~Called("query") /\ ~Called("generate")
      /\ qpc \in {"start", "returned", "logged", "except", "replied"}
      /\ qpc # "start" => qresult.confidence = "low" /\ qresult.sources = <<>>

\* answer_question has returned on an empty index, after the count only
C13_Witness ==
    /\ collection = <<>>
    /\ qpc = "returned"
    /\ calls = <<"count">>
    /\ qresult.confidence = "low"

\* the positions of the retrieved results (at most 5) whose score, 1 - distance,
\* is at least 0.3
Retrieved == 1..(IF Len(collection) < 5 THEN Len(collection) ELSE 5)

Passing == {i \in Retrieved : 100 - collection[i].dist >= 30}

\* the texts of the passing results from position i on, in index order, joined
RECURSIVE ContextFrom(_)
ContextFrom(i) ==
    IF i \notin Retrieved THEN <<>>
    ELSE IF i \notin Passing THEN ContextFrom(i + 1)
    ELSE IF \E j \in Passing : j > i
         THEN collection[i].content \o <<"\n\n---\n\n">> \o ContextFrom(i + 1)
         ELSE collection[i].content

\* the texts the context is made of
InContext == Range(Split(context, <<"\n\n---\n\n">>))

\* C14: the context given to generation is exactly the retrieved results (at
\* most 5) with score >= 0.3, in index order: one scoring 0.25 is never in it,
\* one scoring 0.31 always is; when no result reaches the floor, a fixed
\* low-confidence response with empty sources is returned and generation is
\* not called.
C14_ContextIsResultsAboveFloor ==
    /\ Called("generate") =>
          /\ context = ContextFrom(1)
          /\ \A i \in Retrieved :
                /\ collection[i].dist = 75 => collection[i].content \notin InContext
                /\ collection[i].dist = 69 => collection[i].content \in InContext
    /\ (Called("query") /\ Passing = {}) =>
          /\ ~Called("generate")
          /\ qpc \in {"returned", "logged", "except", "replied"}
          /\ qresult \in {NotRelevant, NoResults}
          /\ qresult.confidence = "low" /\ qresult.sources = <<>>

\* generation is being called with a context of four results: the index holds
\* six chunks, the first scores 0.31, the fourth 0.30, the fifth 0.25
C14_Witness ==
    /\ qpc = "generate"
    /\ Len(collection) = 6
    /\ collection[1].dist = 69
    /\ collection[4].dist = 70
    /\ collection[5].dist = 75
    /\ context = ContextFrom(1)
    /\ Cardinality(Passing) = 4

\* the identifier of the i-th chunk: its url, else its file_path
Identifier(i) ==
    IF collection[i].metadata.url # "" THEN collection[i].metadata.url
    ELSE collection[i].metadata.file_path

\* the position at which an identifier first occurs among the retrieved results
FirstSeen(id) == CHOOSE i \in Retrieved :
                   /\ Identifier(i) = id
                   /\ \A j \in Retrieved : Identifier(j) = id => i <= j

\* C15: the returned source list has no duplicates and at most 3 entries, in
\* the order of first occurrence among the retrieved results, and holds only
\* identifiers (url, else file_path) of results that passed the floor.
C15_SourcesDedupedTop3 ==
    Returned_ =>
      LET srcs == qresult.sources
      IN /\ \A j, k \in 1..Len(srcs) : srcs[j] = srcs[k] => j = k
         /\ Len(srcs) <= 3
         /\ \A j \in 1..Len(srcs) : \E i \in Passing : Identifier(i) = srcs[j]
         /\ \A j, k \in 1..Len(srcs) : j < k => FirstSeen(srcs[j]) < FirstSeen(srcs[k])

\* an answer was returned with three sources although the five results name
\* four identifiers, one of them twice
C15_Witness ==
    /\ qpc = "returned"
    /\ Called("generate")
    /\ qresult.sources = <<"u1", "u2", "f1">>
    /\ Len(collection) >= 5
    /\ Identifier(4) = "u1"
    /\ Identifier(5) = "f2"
    /\ 5 \in Passing

\* ---------------------------------------------------------------------------
\* answer generation

AnyMarker(s) == HasSub(s, MarkerHigh) \/ HasSub(s, MarkerMedium) \/ HasSub(s, MarkerLow)

\* C18: for every generation response, generate_answer returns a confidence in
\* {high, medium, low}, medium when no marker is present, and an answer text
\* that contains none of the three markers, also when the response holds more
\* than one marker.
C18_AnswerHasNoMarker ==
    gpc = "returned" =>
      /\ genOut.confidence \in {"high", "medium", "low"}
      /\ ~AnyMarker(llmText) => genOut.confidence = "medium"
      /\ ~AnyMarker(genOut.answer)

\* ---------------------------------------------------------------------------
\* generation failure

\* C19: when generation raises, answer_question raises instead of returning a
\* result, and the handler posts exactly one reply, the apology that asks for
\* a human, and records no conversation log.
C19_GenerationFailureApologisesOnce ==
    raisedBy = "generate" =>
      /\ qpc \in {"raised", "replied"}
      /\ qresult = NoResult
      /\ convLogs = <<>>
      /\ said = IF qpc = "replied" THEN <<"apology">> ELSE <<>>

\* generation raised and the handler has replied
C19_Witness ==
    /\ raisedBy = "generate"
    /\ calls = <<"count", "embed", "query", "generate">>
    /\ qpc = "replied"
    /\ said = <<"apology">>

\* ---------------------------------------------------------------------------
\* configuration

\* C16: a submission with a malformed URL (a repository URL without owner/name)
\* is rejected at configuration time: no KnowledgeSource row is created for it
\* and no indexing run ever picks one up.
C16_MalformedUrlNeverEnqueued ==
    /\ \A id \in DOMAIN table : table[id].url # "malformed"
    /\ \A id \in selected \cap DOMAIN table : table[id].url # "malformed"

\* C17: a source that has become Failed stays Failed for as long as its row
\* exists (until a reconfiguration deletes it), and no run fetches it.
C17_FailedStaysFailed ==
    [][/\ \A id \in DOMAIN table \cap DOMAIN table' :
            table[id].status = "failed" => table'[id].status = "failed"
       /\ \A r \in DOMAIN runs :
            (runs[r].pc = "marked" /\ runs'[r].pc # "marked"
             /\ Head(runs[r].list) \in DOMAIN table)
            => table[Head(runs[r].list)].status # "failed"]_vars

\* ---------------------------------------------------------------------------
\* chunk overlap

\* the last n characters of s, all of s when it is shorter
Trailing(s, n) == IF Len(s) <= n THEN s ELSE SubSeq(s, Len(s) - n + 1, Len(s))

\* C20: whenever chunk_text flushes a non-empty buffer because the next
\* paragraph (itself no longer than chunk_size) would not fit, the next buffer
\* is the trailing chunk_overlap characters of the flushed buffer (the whole
\* flushed buffer when it is shorter) followed by the new paragraph, with or
\* without a blank line between the two.
C20_NextBufferStartsWithOverlap ==
    \A i \in 1..Len(seeded) :
      LET e == seeded[i]
          tail == Trailing(e.flushed, chunk_overlap)
      IN e.buffer \in {tail \o e.paragraph, tail \o <<"\n", "\n">> \o e.paragraph}

\* ---------------------------------------------------------------------------
\* a failed fetch does not end the crawl

\* the fetches that gave an error or something that is not HTML
Dropped == {i \in 1..Len(responses) : responses[i].res \notin Parsed}

\* C21: a fetch error or a non-HTML response for one URL does not abort the
\* crawl: that URL yields no page, and when the crawl is over every in-scope
\* link the crawl discovered on a parsed page (LinksOf) has been visited,
\* whatever happened to the other fetches, unless the page was at max_depth or
\* the page budget was used up.
C21_FailedFetchDoesNotAbort ==
    /\ \A i \in Dropped : fetched[i] \notin Range(yielded)
    /\ crpc = "done" =>
         \A i \in 1..Len(responses) :
           (/\ responses[i].res \in Parsed
            /\ responses[i].depth < max_depth
            /\ Cardinality(visited) < max_pages)
           => \A k \in DOMAIN LinksOf(fetched[i]) :
                 LET link == Normalize(LinksOf(fetched[i])[k])
                 IN IsValidUrl(link) => link \in visited

\* a finished crawl in which the base page links to a and b, the fetch of a
\* failed, and b was fetched after it and yielded
C21_Witness ==
    /\ crpc = "done"
    /\ site[Docs] = Within("main", <<PageA, PageB>>)
    /\ \E i \in Dropped : fetched[i] = PageA /\ responses[i].res = "error"
    /\ \E j \in 1..Len(fetched) : fetched[j] = PageB /\ j > 1 /\ responses[j].res = "html"
    /\ PageB \in Range(yielded) /\ PageA \notin Range(yielded)

\* ---------------------------------------------------------------------------
\* order of the repository fetch

\* the position of a loop of fetch in the policy
PhaseRank(phase) == CASE phase = "priority" -> 1 [] phase = "operator" -> 2 [] OTHER -> 3

\* the loops of fetch that are over
PhasesOver ==
    CASE ghpc = "operator" -> {"priority"}
      [] ghpc = "docs" -> {"priority", "operator"}
      [] ghpc = "done" -> {"priority", "operator", "docs"}
      [] OTHER -> {}

\* a path of the repository whose file _process_file yields
Yieldable(path) ==
    /\ path \in DOMAIN repo
    /\ repo[path].type = "file"
    /\ ProcessOutcome(repo[path]) = "yield"

PathsYielded == {ghYielded[i].path : i \in 1..Len(ghYielded)}

\* the files directly in the directories of a list that exist
FilesIn(dirs) ==
    UNION {Range(repo[dirs[k]].items) :
             k \in {j \in DOMAIN dirs : dirs[j] \in DOMAIN repo /\ repo[dirs[j]].type = "dir"}}

\* C22: in the output of fetch every file of the priority list precedes every
\* file of an operator directory, which precedes every file of a
\* documentation directory; a later loop yields only if the loops before it
\* left budget; a missing priority file or an absent directory is passed
\* over: while budget is left, every loop that is over has yielded the files
\* of its list that exist.
C22_PhasesInOrder ==
    /\ \A i \in 1..Len(ghYielded), j \in 1..Len(ghYielded) :
         i < j => PhaseRank(ghYielded[i].phase) <= PhaseRank(ghYielded[j].phase)
    /\ \A j \in 1..Len(ghYielded) :
         Cardinality({i \in 1..Len(ghYielded) :
                        PhaseRank(ghYielded[i].phase) < PhaseRank(ghYielded[j].phase)})
           < max_files
    /\ ~BudgetReached(fetched_count, max_files) =>
         /\ "priority" \in PhasesOver =>
              \A k \in DOMAIN PRIORITY_FILES :
                 Yieldable(PRIORITY_FILES[k]) => PRIORITY_FILES[k] \in PathsYielded
         /\ "operator" \in PhasesOver =>
              \A path \in FilesIn(OPERATOR_DIRS) : Yieldable(path) => path \in PathsYielded
         /\ "docs" \in PhasesOver =>
              \A path \in FilesIn(DOC_DIRS) : Yieldable(path) => path \in PathsYielded

\* a finished fetch of a repository without README.md that yielded
\* docs/README.md from the priority list, then api/v1/doc.go, then
\* docs/guide.MD, with budget to spare
C22_Witness ==
    /\ ghpc = "done"
    /\ ReadmePath \notin DOMAIN repo
    /\ ~BudgetReached(fetched_count, max_files)
    /\ \E i, j, k \in 1..Len(ghYielded) :
         /\ i < j /\ j < k
         /\ ghYielded[i].path = DocsReadmePath /\ ghYielded[i].phase = "priority"
         /\ ghYielded[j].path = DocGoPath /\ ghYielded[j].phase = "operator"
         /\ ghYielded[k].path = GuidePath /\ ghYielded[k].phase = "docs"

\* ---------------------------------------------------------------------------
\* chat history

\* the timestamps of a sequence of yielded messages
Timestamps(messages) == [i \in DOMAIN messages |-> messages[i].timestamp]

\* the eligible messages among a sequence, by timestamp
RECURSIVE EligibleTs(_)
EligibleTs(messages) ==
    IF messages = <<>> THEN <<>>
    ELSE (IF ~Head(messages).subtype /\ Head(messages).text_len >= 10
          THEN <<Head(messages).ts>> ELSE <<>>)
         \o EligibleTs(Tail(messages))

\* the stream the history stands for: each top-level message, when eligible,
\* and right after its position the eligible replies of its thread
RECURSIVE ThreadedStream(_)
ThreadedStream(history) ==
    IF history = <<>> THEN <<>>
    ELSE EligibleTs(<<Head(history)>>)
         \o (IF Head(history).reply_count > 0
             THEN EligibleTs(Replies(Head(history).ts)) ELSE <<>>)
         \o ThreadedStream(Tail(history))

\* C23: for every top-level message of the history window that is a thread
\* parent with at least one reply, fetch yields the eligible replies of the
\* thread (not the parent again) right after the parent's position and before
\* any later top-level message; messages with a subtype or with a text of
\* fewer than 10 characters are never yielded.  (Stated for fetches in which
\* no call of the chat platform failed.)
C23_RepliesFollowParent ==
    /\ \A i \in 1..Len(slYielded) : slYielded[i].text_len >= 10
    /\ (slpc = "done" /\ ~slApiError) =>
         Timestamps(slYielded) = ThreadedStream(slHistory)


\* the groups of a list of chunks, each as the timestamps of its messages: a
\* chunk with part = 1 starts a group, a later part goes on with it
RECURSIVE GroupsOf(_, _)
GroupsOf(cs, done) ==
    IF cs = <<>> THEN done
    ELSE IF Head(cs).part = 1
         THEN GroupsOf(Tail(cs), Append(done, Head(cs).text))
         ELSE GroupsOf(Tail(cs),
                       [done EXCEPT ![Len(done)] = @ \o Head(cs).text])

\* the groups flushed so far
Groups == GroupsOf(slChunks, <<>>)

\* the group the chunk at position c belongs to
GroupIndex(c) == Cardinality({d \in 1..c : slChunks[d].part = 1})

RECURSIVE Flatten(_)
Flatten(seqs) == IF seqs = <<>> THEN <<>> ELSE Head(seqs) \o Flatten(Tail(seqs))

\* the thread identity of the yielded message with timestamp ts
ThreadOf(ts) == (CHOOSE m \in Range(slYielded) : m.timestamp = ts).thread_ts

\* C24: _index_slack_history partitions the fetched messages into contiguous
\* groups: the groups, one after the other (and then the group being built),
\* are the fetched messages in their order, the messages of a group have the
\* same thread identity, two adjacent groups have different ones, and every
\* chunk of a group carries the permalink of the group's first message.
C24_ContiguousThreadGroups ==
    /\ Flatten(Groups) \o (IF slpc = "done" THEN <<>> ELSE TextOf(current_conversation))
         = Timestamps(slYielded)
    /\ \A k \in DOMAIN Groups : \A i \in DOMAIN Groups[k] :
         ThreadOf(Groups[k][i]) = ThreadOf(Groups[k][1])
    /\ \A k \in 1..(Len(Groups) - 1) :
         ThreadOf(Groups[k][1]) # ThreadOf(Groups[k + 1][1])
    /\ \A c \in DOMAIN slChunks :
         slChunks[c].url = Permalink(Groups[GroupIndex(c)][1])

\* a finished run that made three groups: two top-level messages, then two
\* replies of the second one's thread, then a later top-level message
C24_Witness ==
    /\ slpc = "done"
    /\ Len(Groups) = 3
    /\ Len(Groups[1]) = 2 /\ ThreadOf(Groups[1][1]) = None
    /\ Len(Groups[2]) = 2 /\ ThreadOf(Groups[2][1]) = Groups[1][2]
    /\ Len(Groups[3]) = 1 /\ ThreadOf(Groups[3][1]) = None

\* ---------------------------------------------------------------------------
\* overlapping runs, failed sources and reconfiguration

\* the runs that committed Indexing for a source, and those that stored its chunks
MarkedBy(id) == {r \in DOMAIN runs : <<id, r>> \in marks}
StoredBy(id) == {e.run : e \in {x \in store : x.source = id}}

\* C25: when indexing is triggered more than once for a channel and the runs
\* overlap, each source is moved from Pending to Indexing by at most one run,
\* and so is fetched and written to the channel's index at most once.
C25_EachSourceIndexedByOneRun ==
    \A id \in DOMAIN table :
       /\ Cardinality(MarkedBy(id)) <= 1
       /\ Cardinality(StoredBy(id)) <= 1

\* C26: a source that ends a run as Failed has contributed no chunks to the
\* channel's index: when the run is over, no source recorded as Failed has
\* chunks in the index.
C26_FailedSourceHasNoChunks ==
    pc = "done" => \A s \in Ids : dbStatus[s] = "failed" => index[s] = 0

\* C27: after a reconfiguration, once the run it started (and every run
\* before it) is over, the channel's index holds only chunks of the currently
\* configured sources: no chunk of a source the reconfiguration deleted.
C27_IndexHoldsConfiguredSourcesOnly ==
    (/\ submits >= 2
     /\ Len(runs) >= 2
     /\ \A r \in DOMAIN runs : runs[r].pc = "done")
    => \A e \in store : e.source \in DOMAIN table

\* ---------------------------------------------------------------------------
\* completeness of the crawl

\* C28: when the page budget is not reached and every fetch succeeds with
\* HTML, the finished crawl has visited every in-scope page that a path of at
\* most max_depth links leads to from the base URL, whatever the order of the
\* links on the pages.
C28_VisitsAllWithinDepth ==
    (/\ crpc = "done"
     /\ \A i \in 1..Len(responses) : responses[i].res \in Parsed
     /\ Cardinality(visited) < max_pages)
    => ReachWithin(max_depth) \subseteq visited

\* ---------------------------------------------------------------------------
\* the documentation subtree

\* the path of u is /docs or goes on from it at a segment boundary
InSubtree(u) ==
    LET path == RStripSlash(UrlPath(u))
    IN /\ Len(u) >= 2 /\ u[1] = "https://" /\ u[2] = "ex.com"
       /\ \/ path = <<"/", "docs">>
          \/ Len(path) >= 3 /\ SubSeq(path, 1, 3) = <<"/", "docs", "/">>

\* C29: every page a crawl yields lies in the documentation subtree of the
\* base URL: its path is the base path or continues it at a segment boundary;
\* a sibling that only shares the characters of the prefix, such as
\* /docs-old/x for base /docs, is never visited.
C29_YieldedInSubtree ==
    /\ \A i \in 1..Len(yielded) : InSubtree(yielded[i])
    /\ DocsOldX \notin visited

\* ---------------------------------------------------------------------------
\* paths of one repository fetch

\* C30: one run of fetch yields each repository-relative path at most once,
\* also a path that is in the priority list and inside a walked directory
\* (docs/README.md).
C30_EachPathYieldedOnce ==
    \A i \in 1..Len(ghYielded), j \in 1..Len(ghYielded) :
       ghYielded[i].path = ghYielded[j].path => i = j

====
